---- MODULE Spec2Model ----
(***************************************************************************)
(* Model of the private-nft dApp: the image upload fallback chain          *)
(* (utils/imageUpload.ts), the FHE helper (utils/fheEncryption.ts), the    *)
(* wallet hook (hooks/useSimpleWallet.ts), the HiddenAttributeNFT contract *)
(* and the mint / transfer / reveal handlers of the React components.      *)
(* Strings of the program are TLA+ strings; Len, SubSeq and \o act on them *)
(* as on sequences of characters.                                          *)
(***************************************************************************)
EXTENDS Integers, Sequences, FiniteSets, Bags, TLC

VARIABLES
    upFile,      \* uploadImage: the File argument [type, size, data]
    upEnv,       \* uploadImage: build-time env and the collaborators' answers
    upPc,        \* uploadImage: "call" before the call, "done" after it
    upResult,    \* uploadImage: what the call returned or threw
    app,         \* the mounted component: "V2Simple" or "HiddenNFTApp"
    selected,    \* the account selected in the wallet extension (getSigner)
    wallet,      \* useSimpleWallet / useAccount state [address, isConnected]
    pendingOps,  \* mount-time promises in flight: checkConnection, connect,
                 \* createInstance (or "instanceError" once that one failed)
    mintValue, selectedImage, minting, mintStatus,
    transferToken, transferAddress, transferring, transferStatus,
    decryptedAttributes, activeDecrypt, decryptStatus,
    nfts,        \* V2Simple: nfts (NFTItem[]); HiddenNFTApp: tokens
    localStorage,\* window.localStorage: key -> value
    nextTokenId, owners, tokenMessages,  \* HiddenAttributeNFT storage
    allowed,     \* the FHE access control list: <<handle, account>> pairs
    callStack,   \* the mint calls of the executing transaction that wait in
                 \* the recipient's onERC721Received callback
    mintRun,     \* the handleMint invocation in flight, or idle
    transferRun, \* the handleTransfer invocation in flight, or idle
    revealRuns,  \* the decryptMessage invocations in flight (a bag)
    fhevmInstance, \* fheEncryption.ts: the module-level `let fhevmInstance`
    fheCalls,    \* the initializeFHE invocations in flight (a bag)
    createCalls, \* how many times the SDK's createInstance has been called
    fheReturn,   \* what the initializeFHE call that settled last returned
    sim,         \* the component state of a simulated app (a record of its
                 \* useState values, the NFTItem heap and its pending timers)
    encryption   \* fheEncryption.ts: the locals of an encryptMessage call
                 \* (message, messageBytes, messageNum) and its position

uploadVars == <<upFile, upEnv, upPc, upResult>>
walletVars == <<selected, wallet, pendingOps>>
mintFormVars == <<mintValue, selectedImage, minting, mintStatus>>
transferFormVars == <<transferToken, transferAddress, transferring, transferStatus>>
revealVars == <<decryptedAttributes, activeDecrypt, decryptStatus>>
chainVars == <<nextTokenId, owners, tokenMessages, allowed, callStack>>
runVars == <<mintRun, transferRun, revealRuns>>
appVars == <<app, walletVars, mintFormVars, transferFormVars, revealVars, nfts,
             localStorage, chainVars, runVars>>
fheVars == <<fhevmInstance, fheCalls, createCalls, fheReturn>>
simVars == <<sim>>
encVars == <<encryption>>
vars == <<uploadVars, fheVars, simVars, encVars, appVars>>

(***************************************************************************)
(* String helpers (JavaScript String methods used by the sources).         *)
(***************************************************************************)
\* String.prototype.startsWith
StartsWith(s, p) == Len(s) >= Len(p) /\ SubSeq(s, 1, Len(p)) = p

\* the i-th character of s, as a one-character string
CharAt(s, i) == SubSeq(s, i, i)

(***************************************************************************)
(* More string helpers.                                                    *)
(***************************************************************************)
RECURSIVE Rep(_, _)
\* String.prototype.repeat / padStart: n copies of c
Rep(c, n) == IF n <= 0 THEN "" ELSE c \o Rep(c, n - 1)

WhiteSpace == {" ", "\t", "\n"}

RECURSIVE TrimStart(_)
TrimStart(s) ==
    IF Len(s) > 0 /\ CharAt(s, 1) \in WhiteSpace
    THEN TrimStart(SubSeq(s, 2, Len(s))) ELSE s

RECURSIVE TrimEnd(_)
TrimEnd(s) ==
    IF Len(s) > 0 /\ CharAt(s, Len(s)) \in WhiteSpace
    THEN TrimEnd(SubSeq(s, 1, Len(s) - 1)) ELSE s

\* String.prototype.trim
Trim(s) == TrimEnd(TrimStart(s))

DecDigits == <<"0", "1", "2", "3", "4", "5", "6", "7", "8", "9">>
HexLower == <<"0", "1", "2", "3", "4", "5", "6", "7", "8", "9",
              "a", "b", "c", "d", "e", "f">>
HexUpper == <<"0", "1", "2", "3", "4", "5", "6", "7", "8", "9",
              "A", "B", "C", "D", "E", "F">>

IsDigit(c) == \E i \in 1..10 : DecDigits[i] = c
\* [a-fA-F0-9]
IsHexChar(c) == \E i \in 1..16 : HexLower[i] = c \/ HexUpper[i] = c
HexValue(c) == CHOOSE i \in 0..15 : HexLower[i + 1] = c \/ HexUpper[i + 1] = c
DigitValue(c) == CHOOSE i \in 0..9 : DecDigits[i + 1] = c

\* String.prototype.toLowerCase on the hex letters
LowerOf == [c \in {HexUpper[i] : i \in 11..16} |->
               HexLower[CHOOSE i \in 11..16 : HexUpper[i] = c]]
LowerChar(c) == IF c \in DOMAIN LowerOf THEN LowerOf[c] ELSE c
RECURSIVE ToLowerFrom(_, _)
\* the characters of s from the i-th on, in lower case
ToLowerFrom(s, i) ==
    IF i > Len(s) THEN "" ELSE LowerChar(CharAt(s, i)) \o ToLowerFrom(s, i + 1)
ToLower(s) == ToLowerFrom(s, 1)

RECURSIVE DigitsOnly(_)
\* value.replace(/[^0-9]/g, '')
DigitsOnly(s) ==
    IF s = "" THEN ""
    ELSE (IF IsDigit(CharAt(s, 1)) THEN CharAt(s, 1) ELSE "")
         \o DigitsOnly(SubSeq(s, 2, Len(s)))

\* the value JavaScript calls NaN (no integer the program uses is negative)
NaN == 0 - 2

RECURSIVE DecValue(_)
DecValue(s) == IF s = "" THEN 0
               ELSE 10 * DecValue(SubSeq(s, 1, Len(s) - 1)) + DigitValue(CharAt(s, Len(s)))
RECURSIVE HexDigitsValue(_)
HexDigitsValue(s) == IF s = "" THEN 0
               ELSE 16 * HexDigitsValue(SubSeq(s, 1, Len(s) - 1)) + HexValue(CharAt(s, Len(s)))

\* Number(string): surrounding white space is ignored, "" is 0, decimal
\* digits and 0x-prefixed hex digits are numbers, any other text is NaN
NumberOf(str) ==
    LET s == Trim(str)
    IN  IF s = "" THEN 0
        ELSE IF \A i \in 1..Len(s) : IsDigit(CharAt(s, i)) THEN DecValue(s)
        ELSE IF Len(s) > 2 /\ SubSeq(s, 1, 2) = "0x"
                /\ \A i \in 3..Len(s) : IsHexChar(CharAt(s, i))
             THEN HexDigitsValue(SubSeq(s, 3, Len(s)))
        ELSE NaN

\* Number.isInteger
IsInteger(n) == n # NaN

RECURSIVE toString(_)
\* Number.prototype.toString / template literal of a non-negative integer
toString(n) == IF n < 10 THEN DecDigits[n + 1]
               ELSE toString(n \div 10) \o DecDigits[(n % 10) + 1]

\* a uint256 as a 32-byte hex string (an event topic, a bytes32 return value)
Zeros63 == Rep("0", 63)
Hex32(n) == "0x" \o Zeros63 \o HexLower[n + 1]

\* Number(topic) of each topic Hex32 can render
TopicNumbers == [n \in 0..15 |-> NumberOf(Hex32(n))]

(***************************************************************************)
(* Accounts and addresses.                                                 *)
(***************************************************************************)
Accounts == {"A", "B"}

\* /^0x[a-fA-F0-9]{40}$/ has 40 hex digits
AddressHexDigits == 40

\* the address of an account as the wallet extension reports it (lower case)
LowerAddresses == [a \in Accounts |->
                      "0x" \o Rep(IF a = "A" THEN "a" ELSE "b", AddressHexDigits)]
LowerAddress(a) == LowerAddresses[a]
\* the address of an account after ethers' getAddress (EIP-55 mixed case,
\* abstracted to upper-case letters)
ChecksumAddresses == [a \in Accounts |->
                         "0x" \o Rep(IF a = "A" THEN "A" ELSE "B", AddressHexDigits)]
ChecksumAddress(a) == ChecksumAddresses[a]

\* ZERO_ADDRESS.test(s), ZERO_ADDRESS = /^0x[a-fA-F0-9]{40}$/
MatchesAddress(s) ==
    /\ Len(s) = 2 + AddressHexDigits
    /\ SubSeq(s, 1, 2) = "0x"
    /\ \A i \in 3..Len(s) : IsHexChar(CharAt(s, i))

\* the account an address string names on chain (addresses compare without
\* case), or "none"
AccountOf(s) ==
    IF \E a \in Accounts : LowerAddress(a) = ToLower(s)
    THEN CHOOSE a \in Accounts : LowerAddress(a) = ToLower(s)
    ELSE "none"

\* null, for a string-valued field
Null == "null"

\* null, for a token-id-valued field (activeDecrypt)
NoToken == 0 - 1

(***************************************************************************)
(* utils/imageUpload.ts                                                    *)
(***************************************************************************)
\* const maxSize = 10 * 1024 * 1024
maxSize == 10 * 1024 * 1024

\* const maxBase64Size = 100 * 1024
maxBase64Size == 100 * 1024

\* import.meta.env.VITE_PINATA_GATEWAY || 'https://gateway.pinata.cloud'
PinataGateway == "https://gateway.pinata.cloud"

\* a thrown Error(message); the fields record which collaborators were used
UploadThrow(message, tried, posted, read) ==
    [ok |-> FALSE, imageUri |-> "", previewUrl |-> "", error |-> message,
     via |-> "none", pinataTried |-> tried, posted |-> posted, read |-> read]

\* a returned UploadResult
UploadOk(uri, preview, via, tried, posted, read) ==
    [ok |-> TRUE, imageUri |-> uri, previewUrl |-> preview, error |-> "",
     via |-> via, pinataTried |-> tried, posted |-> posted, read |-> read]

\* no call of uploadImage has returned yet
NoUploadResult == UploadThrow("", FALSE, FALSE, FALSE)

\* response.data.IpfsHash: derived from the content of the file
IpfsHash(file) == "Qm" \o file.data

\* uploadToPinata(file): throws without both credentials, else posts the file
uploadToPinata(file, env) ==
    IF env.apiKey = "" \/ env.apiSecret = ""
    THEN UploadThrow("Pinata API credentials not configured", TRUE, FALSE, FALSE)
    ELSE IF ~env.pinataOk
    THEN UploadThrow("Request failed", TRUE, TRUE, FALSE)
    ELSE UploadOk("ipfs://" \o IpfsHash(file),
                  PinataGateway \o "/ipfs/" \o IpfsHash(file),
                  "ipfs", TRUE, TRUE, FALSE)

\* uploadAsBase64(file): FileReader.readAsDataURL, onload / onerror
uploadAsBase64(file, env, tried, posted) ==
    IF env.readOk
    THEN UploadOk("data:" \o file.type \o ";base64," \o file.data,
                  "data:" \o file.type \o ";base64," \o file.data,
                  "base64", tried, posted, TRUE)
    ELSE UploadThrow("Failed to read file", tried, posted, TRUE)

\* the base64 branch of uploadImage without its 100KB check
uploadImage_NoCeiling(file, env) ==
    IF ~StartsWith(file.type, "image/")
    THEN UploadThrow("File must be an image", FALSE, FALSE, FALSE)
    ELSE IF file.size > maxSize
    THEN UploadThrow("Image must be less than 10MB", FALSE, FALSE, FALSE)
    ELSE LET p == IF env.apiKey # ""
                  THEN uploadToPinata(file, env)
                  ELSE UploadThrow("", FALSE, FALSE, FALSE)
         IN  IF p.ok THEN p
             ELSE uploadAsBase64(file, env, p.pinataTried, p.posted)

\* uploadImage without the try / catch around the host upload
uploadImage_HostErrorThrown(file, env) ==
    IF ~StartsWith(file.type, "image/")
    THEN UploadThrow("File must be an image", FALSE, FALSE, FALSE)
    ELSE IF file.size > maxSize
    THEN UploadThrow("Image must be less than 10MB", FALSE, FALSE, FALSE)
    ELSE IF env.apiKey # ""
    THEN uploadToPinata(file, env)
    ELSE IF file.size > maxBase64Size
    THEN UploadThrow("Image too large for on-chain storage", FALSE, FALSE, FALSE)
    ELSE uploadAsBase64(file, env, FALSE, FALSE)

\* uploadImage(file)
uploadImage(file, env) ==
    IF ~StartsWith(file.type, "image/")
    THEN UploadThrow("File must be an image", FALSE, FALSE, FALSE)
    ELSE IF file.size > maxSize
    THEN UploadThrow("Image must be less than 10MB", FALSE, FALSE, FALSE)
    ELSE LET p == IF env.apiKey # ""
                  THEN uploadToPinata(file, env)
                  ELSE UploadThrow("", FALSE, FALSE, FALSE)
         IN  IF p.ok THEN p
             ELSE IF file.size > maxBase64Size
             THEN UploadThrow("Image too large for on-chain storage",
                              p.pinataTried, p.posted, FALSE)
             ELSE uploadAsBase64(file, env, p.pinataTried, p.posted)

(***************************************************************************)
(* Bounds of the workflow specification.                                   *)
(***************************************************************************)
\* tokens minted in one behaviour
MaxTokens == 2
\* decryptMessage invocations in flight at once
MaxReveals == 2
\* tokens minted in one behaviour of the cache, mint and transfer
\* specifications
MaxMints == 1
\* mint calls nested in one transaction of the contract specification
MaxDepth == 2
\* createInstance calls, made or still to come, in one behaviour of the
\* FHE instance specification
MaxCreates == 3

(***************************************************************************)
(* utils/fheEncryption.ts and the FHE collaborator.                        *)
(***************************************************************************)
\* the messages the user types; the last is one character over maxLength
maxLength == 100
LongMessage == Rep("x", maxLength + 1)
MessageList == <<"hello", LongMessage>>

\* the bytes32 handle of an uninitialized euint256
ZeroHandle == Hex32(0)

\* encrypted.handles[0] as toHexString gives it: an opaque 32-byte handle,
\* one per encrypted message
HandleOf(m) == Hex32(CHOOSE i \in 1..Len(MessageList) : MessageList[i] = m)

\* what the relayer decrypts a handle to
PlainOf(h) == IF \E i \in 1..Len(MessageList) : Hex32(i) = h
              THEN MessageList[CHOOSE i \in 1..Len(MessageList) : Hex32(i) = h]
              ELSE ""

\* a decryptUint256 that resolves with the plaintext
decryptUint256_Implemented(encryptedHandle, contractAddress) ==
    [ok |-> TRUE, value |-> PlainOf(encryptedHandle), error |-> ""]

\* decryptUint256(_encryptedHandle, _contractAddress): always throws
decryptUint256(encryptedHandle, contractAddress) ==
    [ok |-> FALSE, value |-> "",
     error |-> "FHE decryption requires Zama KMS integration. Message is securely encrypted on-chain."]

CONTRACT_ADDRESS == "0xb23e1c3E307C161bc97cF1540e730e36d98755e2"

(***************************************************************************)
(* HiddenAttributeNFT (the contract), as the client sees it between        *)
(* transactions.                                                           *)
(***************************************************************************)
Exists(tokenId) == tokenId \in DOMAIN owners

\* FHE.isInitialized(message)
IsInitialized(message) == message # ZeroHandle

\* getEncryptedMessage without the isInitialized check
getEncryptedMessage_Unchecked(tokenId) ==
    IF ~Exists(tokenId)
    THEN [ok |-> FALSE, value |-> "", error |-> "ERC721NonexistentToken"]
    ELSE [ok |-> TRUE, value |-> tokenMessages[tokenId], error |-> ""]

\* getEncryptedMessage(tokenId): a view call, reverts or returns the handle
getEncryptedMessage(tokenId) ==
    IF ~Exists(tokenId)
    THEN [ok |-> FALSE, value |-> "", error |-> "ERC721NonexistentToken"]
    ELSE IF ~IsInitialized(tokenMessages[tokenId])
    THEN [ok |-> FALSE, value |-> "", error |-> "AttributeNotInitialized"]
    ELSE [ok |-> TRUE, value |-> tokenMessages[tokenId], error |-> ""]

RECURSIVE SortedSeq(_)
\* the elements of a finite set of numbers in increasing order
SortedSeq(S) == IF S = {} THEN << >>
                ELSE LET m == CHOOSE x \in S : \A y \in S : x <= y
                     IN  <<m>> \o SortedSeq(S \ {m})

\* tokensOfOwner(owner): the ids owned by the account (in increasing order)
tokensOfOwner(account) ==
    SortedSeq({t \in DOMAIN owners : owners[t] = account})

\* FHE.fromExternal(encryptedMessage, inputProof) is library code outside
\* the repository: the model lets it yield the input handle or the
\* uninitialized handle, the value FHE.isInitialized guards against
FromExternal(handle) == {handle, ZeroHandle}

\* a constructor that leaves _nextTokenId at its default value
FirstTokenId_Zero == 1 - 1

\* constructor: _nextTokenId = 1
FirstTokenId == 1

\* address(this), the grantee of FHE.allowThis
This == "this"

\* a contract account that mints and receives tokens; the model lets its
\* onERC721Received callback call the collection again, accept or revert
Receiver == "R"

\* the accounts that send transactions to the contract
Callers == Accounts \cup {Receiver}

\* to.code.length > 0 in ERC721Utils.checkOnERC721Received
IsContract(account) == account = Receiver

\* _tokenMessages[tokenId] as the EVM reads it: zero for a key never written
StoredMessage(messages, tokenId) ==
    IF tokenId \in DOMAIN messages THEN messages[tokenId] ELSE ZeroHandle

\* a write that always lands in the slot of the first token
StoreMessage_FirstSlot(messages, tokenId, message) ==
    [t \in DOMAIN messages \cup {FirstTokenId} |->
        IF t = FirstTokenId THEN message ELSE messages[t]]

\* _tokenMessages[tokenId] = message
StoreMessage(messages, tokenId, message) ==
    [t \in DOMAIN messages \cup {tokenId} |->
        IF t = tokenId THEN message ELSE messages[t]]

\* FHE.allow(message, account): the ACL only ever gains pairs
Allow(acl, message, account) == acl \cup {<<message, account>>}

\* the end of mint(): FHE.allowThis(message); FHE.allow(message, _msgSender())
MintGrants(acl, message, sender) == Allow(Allow(acl, message, This), message, sender)

\* the override of _update, for to != address(0): the grants it adds when
\* the token's message is initialized
UpdateGrants(acl, messages, to, tokenId) ==
    LET message == StoredMessage(messages, tokenId)
    IN  IF IsInitialized(message)
        THEN Allow(Allow(acl, message, to), message, This)
        ELSE acl

\* the accounts the ACL lets decrypt a handle
Grantees(message) == {account \in Callers \cup {This} : <<message, account>> \in allowed}

\* the storage of the contract and of the ACL, as one value (what a revert
\* restores)
Storage == [nextTokenId |-> nextTokenId, owners |-> owners,
            tokenMessages |-> tokenMessages, allowed |-> allowed]

\* mint(encryptedMessage, inputProof, imageURI) sent by the externally owned
\* account `sender` (no callback): the new storage, given the euint256 that
\* FHE.fromExternal produced
MintEffect(sender, message) ==
    /\ owners' = owners @@ (nextTokenId :> sender)
    /\ tokenMessages' = StoreMessage(tokenMessages, nextTokenId, message)
    /\ nextTokenId' = nextTokenId + 1
    /\ allowed' = MintGrants(UpdateGrants(allowed, tokenMessages, sender, nextTokenId),
                             message, sender)
    /\ UNCHANGED callStack

\* transferFrom(from, to, tokenId) once its checks passed: _update(to, ...)
TransferEffect(to, tokenId) ==
    /\ owners' = [owners EXCEPT ![tokenId] = to]
    /\ allowed' = UpdateGrants(allowed, tokenMessages, to, tokenId)
    /\ UNCHANGED <<nextTokenId, tokenMessages, callStack>>

\* transferFrom(from, to, tokenId) sent by `sender` reverts unless the token
\* exists, `from` owns it and the sender is its owner (the client never
\* grants approvals)
TransferAllowed(sender, from, tokenId) ==
    /\ Exists(tokenId)
    /\ owners[tokenId] = from
    /\ sender = from

(***************************************************************************)
(* utils/fheEncryption.ts: initializeFHE and its module-level instance.    *)
(* Each invocation in flight is an element of fheCalls; the instance a     *)
(* createInstance call resolves to is named after the number of that call. *)
(***************************************************************************)
\* the callers of initializeFHE: the on-connect effect of the component and
\* encryptMessage
FheCallers == {"effect", "encryptMessage"}

\* the FhevmInstance the n-th createInstance call resolves to
InstanceOf(n) == "instance" \o DecDigits[n + 1]

\* an invocation of initializeFHE at one of its awaits; n is the number of
\* its createInstance call (0 before that call)
FheCall(caller, pc, n) == [caller |-> caller, pc |-> pc, n |-> n]

\* the promise initializeFHE returned settles
Resolved(caller, instance) == [caller |-> caller, ok |-> TRUE, value |-> instance]
Rejected(caller, message) == [caller |-> caller, ok |-> FALSE, value |-> message]

\* no call has settled
NoReturn == [caller |-> "none", ok |-> FALSE, value |-> ""]

FheUnused ==
    /\ fhevmInstance = Null
    /\ fheCalls = EmptyBag
    /\ createCalls = 0
    /\ fheReturn = NoReturn

\* isFHEInitialized()
isFHEInitialized == fhevmInstance # Null

\* the catch block of initializeFHE: the error is thrown again
InitializeFails(c, message) ==
    /\ fheCalls' = fheCalls (-) SetToBag({c})
    /\ fheReturn' = Rejected(c.caller, message)
    /\ UNCHANGED <<fhevmInstance, createCalls>>

\* initializeFHE(), up to `await initSDK()`
InitializeFHE(caller, hasEthereum) ==
    /\ IF fhevmInstance # Null
       THEN /\ fheReturn' = Resolved(caller, fhevmInstance)
            /\ UNCHANGED <<fhevmInstance, fheCalls, createCalls>>
       ELSE IF ~hasEthereum
       THEN /\ fheReturn' = Rejected(caller, "MetaMask not found")
            /\ UNCHANGED <<fhevmInstance, fheCalls, createCalls>>
       ELSE /\ fheCalls' = fheCalls (+) SetToBag({FheCall(caller, "initSDK", 0)})
            /\ UNCHANGED <<fhevmInstance, createCalls, fheReturn>>
    /\ UNCHANGED <<uploadVars, simVars, encVars, appVars>>

\* initSDK() settles; then provider.getNetwork() is awaited
InitSDKReturn(c, ok) ==
    /\ BagIn(c, fheCalls)
    /\ c.pc = "initSDK"
    /\ IF ok
       THEN /\ fheCalls' = (fheCalls (-) SetToBag({c}))
                              (+) SetToBag({[c EXCEPT !.pc = "getNetwork"]})
            /\ UNCHANGED <<fhevmInstance, createCalls, fheReturn>>
       ELSE InitializeFails(c, "initSDK failed")
    /\ UNCHANGED <<uploadVars, simVars, encVars, appVars>>

\* getNetwork() settles; then createInstance({...SepoliaConfig, chainId})
\* is called and awaited
GetNetworkReturn(c, ok) ==
    /\ BagIn(c, fheCalls)
    /\ c.pc = "getNetwork"
    /\ IF ok
       THEN /\ createCalls' = createCalls + 1
            /\ fheCalls' = (fheCalls (-) SetToBag({c}))
                              (+) SetToBag({[c EXCEPT !.pc = "createInstance",
                                                     !.n = createCalls + 1]})
            /\ UNCHANGED <<fhevmInstance, fheReturn>>
       ELSE InitializeFails(c, "network error")
    /\ UNCHANGED <<uploadVars, simVars, encVars, appVars>>

\* createInstance settles: the instance is stored and returned
CreateInstanceReturn(c, ok) ==
    /\ BagIn(c, fheCalls)
    /\ c.pc = "createInstance"
    /\ IF ok
       THEN /\ fhevmInstance' = InstanceOf(c.n)
            /\ fheCalls' = fheCalls (-) SetToBag({c})
            /\ fheReturn' = Resolved(c.caller, InstanceOf(c.n))
            /\ UNCHANGED createCalls
       ELSE InitializeFails(c, "relayer unavailable")
    /\ UNCHANGED <<uploadVars, simVars, encVars, appVars>>

(***************************************************************************)
(* Component state shared by the app variants.                             *)
(***************************************************************************)
Apps == {"V2Simple", "HiddenNFTApp"}

NoFile == [type |-> "", size |-> 0 - 1, data |-> ""]
SmallPng == [type |-> "image/png", size |-> 50 * 1024, data |-> "IMG"]

\* the status texts start with a cross, a check mark or an information sign
Failed(message) == "[x] " \o message
Succeeded(message) == "[ok] " \o message
Informed(message) == "[i] " \o message

\* the key of the local plaintext cache
CacheKey(address, tokenId) == "nft_message_" \o address \o "_" \o toString(tokenId)

\* localStorage.getItem: the stored string or null
GetItem(key) == IF key \in DOMAIN localStorage THEN localStorage[key] ELSE Null

\* { ...prev, [key]: value }
Put(map, key, value) == [k \in DOMAIN map \cup {key} |-> IF k = key THEN value ELSE map[k]]

\* delete updated[key]
Remove(map, key) == [k \in DOMAIN map \ {key} |-> map[k]]

EmptyMap == [k \in {} |-> ""]

IdleRun == [pc |-> "idle", address |-> Null, value |-> "", image |-> NoFile,
            imageUri |-> "", handle |-> "", encUser |-> "none", signer |-> "none",
            checked |-> "", to |-> "", tokenId |-> NoToken]

RevealRun(pc, tokenId, address, handle) ==
    [pc |-> pc, token |-> tokenId, address |-> address, handle |-> handle]

\* the decryptMessage invocations in flight, one element per invocation
InFlight == BagCardinality(revealRuns)

\* a pending continuation that the event loop runs before any other event
\* (a promise that is already settled): decryptUint256 rejects at once
MicrotaskPending ==
    \E r \in BagToSet(revealRuns) : r.pc = "decrypting" /\ app = "V2Simple"

\* hasWallet / wallet.isConnected && wallet.address
HasWallet == wallet.isConnected /\ wallet.address # Null

\* useZamaInstance: isLoading, and instance is not null
InstanceLoading == "createInstance" \in pendingOps
InstanceReady == app = "HiddenNFTApp" /\ pendingOps \cap {"createInstance", "instanceError"} = {}

\* the ids shown with a reveal button
ShownTokens == {nfts[i].tokenId : i \in 1..Len(nfts)}

(***************************************************************************)
(* Inputs of the workflow specification.                                   *)
(***************************************************************************)
\* what the user types into the message field
MintInputs == {"", "  ", "hello", LongMessage}
\* what the user types into the token id field (onChange keeps the digits)
TokenInputs == {"", "1", "2x"}
\* what the user types into the recipient field
AddressInputs == {LowerAddress("B"), " " \o LowerAddress("B") \o " ", "0x" \o Rep("Z", AddressHexDigits)}
\* the files ImageUpload hands to onImageSelect (images of at most 10MB)
ImageInputs == {SmallPng}
\* the build's Pinata configuration
AppUploadEnv == [apiKey |-> "key", apiSecret |-> "secret", pinataOk |-> TRUE, readOk |-> TRUE]

(***************************************************************************)
(* State of the simulated apps: components/HiddenNFTApp.test.tsx           *)
(* (HiddenNFTAppTest) and components/HiddenNFTAppV2.tsx (HiddenNFTAppV2).  *)
(* Both keep the NFTs in component state; the NFTItem objects live on the  *)
(* heap (sim.objects) and an array is a sequence of references to them.    *)
(***************************************************************************)
SimApps == {"HiddenNFTAppTest", "HiddenNFTAppV2"}

\* useState(1) of nextTokenId
FirstSimTokenId == 1

\* the state after the first render of app a
SimStart(a) ==
    [app |-> a,
     address |-> Null,
     mintValue |-> "", selectedImage |-> NoFile, minting |-> FALSE, mintStatus |-> "",
     transferToken |-> "", transferAddress |-> "", transferring |-> FALSE,
     transferStatus |-> "",
     decryptedAttributes |-> EmptyMap, activeDecrypt |-> NoToken, decryptStatus |-> "",
     nfts |-> << >>, objects |-> << >>, nextTokenId |-> FirstSimTokenId,
     activeTab |-> "mint",
     mintRuns |-> EmptyBag, reveals |-> EmptyBag]

\* the simulated apps are not mounted
SimUnused == sim = SimStart("HiddenNFTAppTest")

\* encryptMessage has not been called
EncodeUnused ==
    encryption = [pc |-> "idle", message |-> << >>, messageBytes |-> << >>,
                  messageNum |-> << >>]

Disconnected == [address |-> Null, isConnected |-> FALSE, isLoading |-> FALSE, error |-> Null]
Connected(address) == [address |-> address, isConnected |-> TRUE, isLoading |-> FALSE, error |-> Null]

InitApp ==
    /\ app \in Apps
    /\ selected = "A"
    /\ wallet = Disconnected
    /\ pendingOps = {"checkConnection"}
                       \cup (IF app = "HiddenNFTApp" THEN {"createInstance"} ELSE {})
    /\ mintValue = "" /\ selectedImage = NoFile /\ minting = FALSE /\ mintStatus = ""
    /\ transferToken = "" /\ transferAddress = "" /\ transferring = FALSE
    /\ transferStatus = ""
    /\ decryptedAttributes = EmptyMap /\ activeDecrypt = NoToken /\ decryptStatus = ""
    /\ nfts = << >>
    /\ localStorage = EmptyMap
    /\ nextTokenId = FirstTokenId /\ owners = << >> /\ tokenMessages = << >>
    /\ allowed = {} /\ callStack = << >>
    /\ mintRun = IdleRun /\ transferRun = IdleRun /\ revealRuns = EmptyBag
    /\ FheUnused
    /\ SimUnused
    /\ EncodeUnused

\* the on-chain apps are not used: their variables keep the values of a
\* component that was never connected
WorkflowUnused ==
    /\ app = "V2Simple"
    /\ selected = "A"
    /\ wallet = Disconnected
    /\ pendingOps = {}
    /\ mintValue = "" /\ selectedImage = NoFile /\ minting = FALSE /\ mintStatus = ""
    /\ transferToken = "" /\ transferAddress = "" /\ transferring = FALSE
    /\ transferStatus = ""
    /\ decryptedAttributes = EmptyMap /\ activeDecrypt = NoToken /\ decryptStatus = ""
    /\ nfts = << >>
    /\ localStorage = EmptyMap
    /\ nextTokenId = FirstTokenId /\ owners = << >> /\ tokenMessages = << >>
    /\ allowed = {} /\ callStack = << >>
    /\ mintRun = IdleRun /\ transferRun = IdleRun /\ revealRuns = EmptyBag

\* the state of the workflow variables in the upload specification
AppUnused ==
    /\ WorkflowUnused
    /\ FheUnused
    /\ SimUnused
    /\ EncodeUnused

\* the state of the upload variables in the workflow specification
UploadUnused ==
    /\ upFile = NoFile
    /\ upEnv = AppUploadEnv
    /\ upPc = "done"
    /\ upResult = NoUploadResult

(***************************************************************************)
(* hooks/useSimpleWallet.ts (V2Simple) and wagmi's useAccount              *)
(* (HiddenNFTApp).                                                         *)
(***************************************************************************)
\* accounts[0].address of provider.listAccounts() went through getAddress;
\* wagmi reports checksummed addresses too
ListedAddress(a) == ChecksumAddress(a)
\* accounts[0] of the accountsChanged event and of eth_requestAccounts is
\* the wallet extension's own string
RawAddress(a) == IF app = "V2Simple" THEN LowerAddress(a) ELSE ChecksumAddress(a)

\* wagmi drops the data of a query whose key (the address) changed
NftsAfterWalletChange == IF app = "V2Simple" THEN nfts ELSE << >>

\* checkConnection(): the listAccounts() promise settles
CheckConnection(authorized) ==
    /\ ~MicrotaskPending
    /\ "checkConnection" \in pendingOps
    /\ pendingOps' = pendingOps \ {"checkConnection"}
    /\ IF authorized
       THEN wallet' = Connected(ListedAddress(selected)) /\ nfts' = NftsAfterWalletChange
       ELSE UNCHANGED <<wallet, nfts>>
    /\ UNCHANGED <<uploadVars, fheVars, simVars, encVars, app, selected, mintFormVars, transferFormVars,
                   revealVars, localStorage, chainVars, runVars>>

\* window.ethereum.on('accountsChanged', ...) with a non-empty list
AccountsChanged(a) ==
    /\ ~MicrotaskPending
    /\ selected' = a
    /\ wallet' = Connected(RawAddress(a))
    /\ nfts' = NftsAfterWalletChange
    /\ UNCHANGED <<uploadVars, fheVars, simVars, encVars, app, pendingOps, mintFormVars, transferFormVars,
                   revealVars, localStorage, chainVars, runVars>>

\* the accountsChanged event with an empty list, and disconnect()
Disconnect ==
    /\ ~MicrotaskPending
    /\ HasWallet
    /\ wallet' = Disconnected
    /\ nfts' = NftsAfterWalletChange
    /\ UNCHANGED <<uploadVars, fheVars, simVars, encVars, app, selected, pendingOps, mintFormVars,
                   transferFormVars, revealVars, localStorage, chainVars, runVars>>

\* connect(): up to the eth_requestAccounts request
ConnectStart ==
    /\ ~MicrotaskPending
    /\ app = "V2Simple"
    /\ ~HasWallet /\ ~wallet.isLoading      \* the button shown and enabled
    /\ "connect" \notin pendingOps
    /\ wallet' = [wallet EXCEPT !.isLoading = TRUE, !.error = Null]
    /\ pendingOps' = pendingOps \cup {"connect"}
    /\ UNCHANGED <<uploadVars, fheVars, simVars, encVars, app, selected, mintFormVars, transferFormVars,
                   revealVars, nfts, localStorage, chainVars, runVars>>

\* the page has a wallet provider (window.ethereum); a page without one is
\* marked in pendingOps, where no promise of the mount effect is in flight
HasProvider == "noProvider" \notin pendingOps

\* the accountsChanged event with an empty list, in any state of the hook
AccountsEmptied ==
    /\ ~MicrotaskPending
    /\ wallet' = Disconnected
    /\ nfts' = NftsAfterWalletChange
    /\ UNCHANGED <<uploadVars, fheVars, simVars, encVars, app, selected, pendingOps, mintFormVars,
                   transferFormVars, revealVars, localStorage, chainVars, runVars>>

\* connect() on a page without window.ethereum: the throw inside the try
\* block and the catch block run in the same task as the first setWallet
ConnectNoProvider ==
    /\ ~MicrotaskPending
    /\ app = "V2Simple"
    /\ ~HasWallet /\ ~wallet.isLoading      \* the button shown and enabled
    /\ ~HasProvider
    /\ wallet' = [wallet EXCEPT !.isLoading = FALSE,
                                !.error = "MetaMask not installed. Please install MetaMask to continue."]
    /\ UNCHANGED <<uploadVars, fheVars, simVars, encVars, app, selected, pendingOps, mintFormVars,
                   transferFormVars, revealVars, nfts, localStorage, chainVars, runVars>>

\* a catch block of connect() that resets the hook's state
ConnectReturn_ResetOnFailure(outcome) ==
    /\ ~MicrotaskPending
    /\ "connect" \in pendingOps
    /\ pendingOps' = pendingOps \ {"connect"}
    /\ wallet' = IF outcome = "accounts" THEN Connected(RawAddress(selected))
                 ELSE IF outcome = "empty" THEN wallet
                 ELSE [Disconnected EXCEPT !.error = "Failed to connect wallet"]
    /\ UNCHANGED <<uploadVars, fheVars, simVars, encVars, app, selected, mintFormVars, transferFormVars,
                   revealVars, nfts, localStorage, chainVars, runVars>>

\* connect(): the request settles with accounts, with no account, or throws
ConnectReturn(outcome) ==
    /\ ~MicrotaskPending
    /\ "connect" \in pendingOps
    /\ pendingOps' = pendingOps \ {"connect"}
    /\ wallet' = IF outcome = "accounts" THEN Connected(RawAddress(selected))
                 ELSE IF outcome = "empty" THEN wallet
                 ELSE [wallet EXCEPT !.isLoading = FALSE,
                                     !.error = "Failed to connect wallet"]
    /\ UNCHANGED <<uploadVars, fheVars, simVars, encVars, app, selected, mintFormVars, transferFormVars,
                   revealVars, nfts, localStorage, chainVars, runVars>>

(***************************************************************************)
(* The form fields (both components).  A field accepts input while its     *)
(* `disabled` expression is false.                                         *)
(***************************************************************************)
MintFieldsDisabled ==
    IF app = "V2Simple" THEN minting \/ ~wallet.isConnected ELSE FALSE

TransferFieldsDisabled ==
    IF app = "V2Simple" THEN transferring \/ ~wallet.isConnected ELSE FALSE

\* onChange of the message field: setMintValue(event.target.value)
SetMintValue(v) ==
    /\ ~MicrotaskPending
    /\ ~MintFieldsDisabled
    /\ mintValue' = v
    /\ UNCHANGED <<uploadVars, fheVars, simVars, encVars, app, walletVars, selectedImage, minting, mintStatus,
                   transferFormVars, revealVars, nfts, localStorage, chainVars, runVars>>

\* onImageSelect(file) of ImageUpload; file is null after "remove"
SetSelectedImage(f) ==
    /\ ~MicrotaskPending
    /\ IF app = "V2Simple" THEN ~(minting \/ ~wallet.isConnected) ELSE ~minting
    /\ selectedImage' = f
    /\ UNCHANGED <<uploadVars, fheVars, simVars, encVars, app, walletVars, mintValue, minting, mintStatus,
                   transferFormVars, revealVars, nfts, localStorage, chainVars, runVars>>

\* onChange of the token id field: only the digits are kept
SetTransferToken(v) ==
    /\ ~MicrotaskPending
    /\ ~TransferFieldsDisabled
    /\ transferToken' = DigitsOnly(v)
    /\ UNCHANGED <<uploadVars, fheVars, simVars, encVars, app, walletVars, mintFormVars, transferAddress,
                   transferring, transferStatus, revealVars, nfts, localStorage,
                   chainVars, runVars>>

\* onChange of the recipient field: setTransferAddress(event.target.value)
SetTransferAddress(v) ==
    /\ ~MicrotaskPending
    /\ ~TransferFieldsDisabled
    /\ transferAddress' = v
    /\ UNCHANGED <<uploadVars, fheVars, simVars, encVars, app, walletVars, mintFormVars, transferToken,
                   transferring, transferStatus, revealVars, nfts, localStorage,
                   chainVars, runVars>>

(***************************************************************************)
(* handleMint.  One action per await of the handler; mintRun holds the     *)
(* values the closure captured and the handler's local variables.          *)
(***************************************************************************)
\* the rejections of handleMint without the test of the message
MintRejection_NoMessageCheck ==
    IF app = "V2Simple"
    THEN IF ~HasWallet THEN "Please connect your wallet first."
         ELSE IF selectedImage = NoFile THEN "Please select an image for the NFT."
         ELSE ""
    ELSE IF ~HasWallet \/ ~InstanceReady
         THEN "Connect a wallet and wait for encryption to be ready."
         ELSE IF selectedImage = NoFile THEN "Please select an image for the NFT."
         ELSE ""

\* the rejections of handleMint before its try block, or "" when it goes on
MintRejection ==
    IF app = "V2Simple"
    THEN IF ~HasWallet THEN "Please connect your wallet first."
         ELSE IF selectedImage = NoFile THEN "Please select an image for the NFT."
         ELSE IF Trim(mintValue) = "" THEN "Please enter a message for the NFT."
         ELSE ""
    ELSE IF ~HasWallet \/ ~InstanceReady
         THEN "Connect a wallet and wait for encryption to be ready."
         ELSE IF selectedImage = NoFile THEN "Please select an image for the NFT."
         ELSE IF Trim(mintValue) = "" THEN "Please enter a message for the NFT."
         ELSE ""

\* the text the catch blocks put in the status field
ErrorStatus(message) == IF app = "V2Simple" THEN Failed(message) ELSE message

\* handleMint(event), up to `await uploadImage(selectedImage)`
HandleMint ==
    /\ ~MicrotaskPending
    /\ ~minting                       \* the submit button is disabled while minting
    /\ IF MintRejection # ""
       THEN /\ mintStatus' = MintRejection
            /\ UNCHANGED <<minting, mintRun>>
       ELSE /\ minting' = TRUE
            /\ mintStatus' = "Uploading image..."
            /\ mintRun' = [IdleRun EXCEPT !.pc = "uploading",
                                          !.address = wallet.address,
                                          !.value = mintValue,
                                          !.image = selectedImage]
    /\ UNCHANGED <<uploadVars, fheVars, simVars, encVars, app, walletVars, mintValue, selectedImage,
                   transferFormVars, revealVars, nfts, localStorage, chainVars,
                   transferRun, revealRuns>>

\* the account an encrypted input is bound to: V2Simple's encryptMessage
\* asks the provider's signer, HiddenNFTApp passes the address it rendered
EncryptingUser(address) == IF app = "V2Simple" THEN selected ELSE AccountOf(address)

\* the account that signs: provider.getSigner() is the selected account,
\* useEthersSigner() the account of the rendered address
SignerAccount(address) == IF app = "V2Simple" THEN selected ELSE AccountOf(address)

\* a catch block that reports the error and lets the handler go on
MintFails_GoesOn(message) ==
    /\ mintStatus' = ErrorStatus(message)
    /\ mintRun' = [mintRun EXCEPT !.pc = "signer"]
    /\ UNCHANGED minting

\* the catch and finally blocks of handleMint
MintFails(message) ==
    /\ mintStatus' = ErrorStatus(message)
    /\ minting' = FALSE
    /\ mintRun' = IdleRun

\* uploadImage settles; then encryptMessage(mintValue) is called
MintUploadReturn(pinataOk, readOk) ==
    /\ ~MicrotaskPending
    /\ mintRun.pc = "uploading"
    /\ LET res == uploadImage(mintRun.image,
                              [AppUploadEnv EXCEPT !.pinataOk = pinataOk,
                                                   !.readOk = readOk])
       IN  IF res.ok
           THEN /\ mintStatus' = (IF app = "V2Simple"
                                 THEN "Encrypting message with FHE..."
                                 ELSE "Image uploaded. Encrypting message...")
                /\ mintRun' = [mintRun EXCEPT !.pc = "encrypting",
                                              !.imageUri = res.imageUri]
                /\ UNCHANGED minting
           ELSE MintFails(res.error)
    /\ UNCHANGED <<uploadVars, fheVars, simVars, encVars, app, walletVars, mintValue, selectedImage,
                   transferFormVars, revealVars, nfts, localStorage, chainVars,
                   transferRun, revealRuns>>

\* encryptMessage settles: the input is encrypted for the account the
\* provider's signer has at that moment; then getSigner() is awaited
MintEncryptReturn(ok) ==
    /\ ~MicrotaskPending
    /\ mintRun.pc = "encrypting"
    /\ IF ok
       THEN /\ mintStatus' = (IF app = "V2Simple"
                             THEN "Awaiting wallet confirmation..."
                             ELSE "Minting NFT...")
            /\ mintRun' = [mintRun EXCEPT !.pc = "signer",
                                          !.handle = HandleOf(mintRun.value),
                                          !.encUser = EncryptingUser(mintRun.address)]
            /\ UNCHANGED minting
       ELSE MintFails("Failed to encrypt message: relayer unavailable")
    /\ UNCHANGED <<uploadVars, fheVars, simVars, encVars, app, walletVars, mintValue, selectedImage,
                   transferFormVars, revealVars, nfts, localStorage, chainVars,
                   transferRun, revealRuns>>

\* getSigner() settles with the selected account; contract.mint is called
MintSignerReturn ==
    /\ ~MicrotaskPending
    /\ mintRun.pc = "signer"
    /\ mintRun' = [mintRun EXCEPT !.pc = "signing",
                                  !.signer = SignerAccount(mintRun.address)]
    /\ UNCHANGED <<uploadVars, fheVars, simVars, encVars, app, walletVars, mintFormVars, transferFormVars,
                   revealVars, nfts, localStorage, chainVars, transferRun, revealRuns>>

\* contract.mint settles: the transaction was sent, or the user rejected it
MintTxReturn(ok) ==
    /\ ~MicrotaskPending
    /\ mintRun.pc = "signing"
    /\ IF ok
       THEN /\ mintStatus' = (IF app = "V2Simple"
                             THEN "Waiting for blockchain confirmation..."
                             ELSE mintStatus)
            /\ mintRun' = [mintRun EXCEPT !.pc = "confirming"]
            /\ UNCHANGED minting
       ELSE MintFails("user rejected action")
    /\ UNCHANGED <<uploadVars, fheVars, simVars, encVars, app, walletVars, mintValue, selectedImage,
                   transferFormVars, revealVars, nfts, localStorage, chainVars,
                   transferRun, revealRuns>>

\* the chain executes mint(): the input proof is bound to the account it was
\* encrypted for, so the call reverts for any other sender
MintMined(message) ==
    /\ ~MicrotaskPending
    /\ mintRun.pc = "confirming"
    /\ message \in FromExternal(mintRun.handle)
    /\ IF mintRun.encUser = mintRun.signer
       THEN /\ MintEffect(mintRun.signer, message)
            /\ mintRun' = [mintRun EXCEPT !.pc = "mined", !.tokenId = nextTokenId]
       ELSE /\ message = mintRun.handle
            /\ mintRun' = [mintRun EXCEPT !.pc = "reverted"]
            /\ UNCHANGED chainVars
    /\ UNCHANGED <<uploadVars, fheVars, simVars, encVars, app, walletVars, mintFormVars, transferFormVars,
                   revealVars, nfts, localStorage, transferRun, revealRuns>>

\* tokensOfOwner(address) as the component stores it (of an NFTItem the
\* handlers read the tokenId only)
LoadedTokens(address) ==
    LET ids == tokensOfOwner(AccountOf(address))
    IN  [i \in 1..Len(ids) |-> [tokenId |-> ids[i]]]

\* a handleMint that does not await tx.wait(): the rest of the handler runs
\* as soon as contract.mint has resolved, with the id the token will get
MintWaitReturn_Unconfirmed ==
    /\ ~MicrotaskPending
    /\ mintRun.pc = "confirming"
    /\ IF app = "V2Simple"
       THEN /\ localStorage' = Put(localStorage,
                                  CacheKey(mintRun.address, nextTokenId),
                                  mintRun.value)
            /\ mintStatus' = Succeeded("NFT minted successfully!")
            /\ mintValue' = ""
            /\ selectedImage' = NoFile
            /\ minting' = FALSE
            /\ mintRun' = IdleRun
            /\ UNCHANGED nfts
       ELSE /\ mintValue' = ""
            /\ selectedImage' = NoFile
            /\ mintStatus' = "Minted successfully."
            /\ mintRun' = [mintRun EXCEPT !.pc = "refetching"]
            /\ UNCHANGED <<minting, localStorage, nfts>>
    /\ UNCHANGED <<uploadVars, fheVars, simVars, encVars, app, walletVars, transferFormVars, revealVars,
                   chainVars, transferRun, revealRuns>>

\* tx.wait() settles; the rest of handleMint
MintWaitReturn ==
    /\ ~MicrotaskPending
    /\ mintRun.pc \in {"mined", "reverted"}
    /\ IF mintRun.pc = "reverted"
       THEN /\ MintFails("execution reverted")
            /\ UNCHANGED <<mintValue, selectedImage, localStorage, nfts>>
       ELSE IF app = "V2Simple"
       THEN LET \* Number(receipt.logs[0]?.topics[3])
                tokenIdNum == TopicNumbers[mintRun.tokenId]
            IN  /\ localStorage' = Put(localStorage,
                                       CacheKey(mintRun.address, tokenIdNum),
                                       mintRun.value)
                /\ mintStatus' = Succeeded("NFT minted successfully!")
                /\ mintValue' = ""
                /\ selectedImage' = NoFile
                /\ minting' = FALSE
                /\ mintRun' = IdleRun
                /\ UNCHANGED nfts
       ELSE /\ mintValue' = ""
            /\ selectedImage' = NoFile
            /\ mintStatus' = "Minted successfully."
            /\ mintRun' = [mintRun EXCEPT !.pc = "refetching"]
            /\ UNCHANGED <<minting, localStorage, nfts>>
    /\ UNCHANGED <<uploadVars, fheVars, simVars, encVars, app, walletVars, transferFormVars, revealVars,
                   chainVars, transferRun, revealRuns>>

\* HiddenNFTApp: `await refetchTokens()` settles, then the finally block
MintRefetchReturn ==
    /\ ~MicrotaskPending
    /\ mintRun.pc = "refetching"
    /\ nfts' = IF HasWallet THEN LoadedTokens(wallet.address) ELSE << >>
    /\ minting' = FALSE
    /\ mintRun' = IdleRun
    /\ UNCHANGED <<uploadVars, fheVars, simVars, encVars, app, walletVars, mintValue, selectedImage, mintStatus,
                   transferFormVars, revealVars, localStorage, chainVars,
                   transferRun, revealRuns>>

\* V2Simple: loadNFTs() (the effect on wallet / tab changes, the timer after
\* a mint); HiddenNFTApp: the tokensOfOwner query of useReadContract
LoadNFTs ==
    /\ ~MicrotaskPending
    /\ HasWallet
    /\ nfts' = LoadedTokens(wallet.address)
    /\ nfts' # nfts
    /\ UNCHANGED <<uploadVars, fheVars, simVars, encVars, app, walletVars, mintFormVars, transferFormVars,
                   revealVars, localStorage, chainVars, runVars>>

(***************************************************************************)
(* handleTransfer.                                                         *)
(***************************************************************************)
\* the rejections of handleTransfer before its try block, or ""
TransferRejection ==
    IF app = "V2Simple"
    THEN IF ~HasWallet THEN "Please connect your wallet first."
         ELSE IF ~MatchesAddress(Trim(transferAddress))
         THEN "Enter a valid Ethereum address (0x...)"
         ELSE IF ~IsInteger(NumberOf(transferToken)) \/ NumberOf(transferToken) < 0
         THEN "Enter a valid token ID (must be a number)"
         ELSE ""
    ELSE IF ~HasWallet THEN "Connect a wallet first."
         ELSE IF ~MatchesAddress(Trim(transferAddress))
         THEN "Enter a valid recipient address."
         ELSE IF NumberOf(transferToken) = NaN         \* BigInt(...) throws
         THEN "Enter a valid token id."
         ELSE ""

\* the recipient argument of contract.transferFrom
TransferRecipient ==
    IF app = "V2Simple" THEN transferAddress ELSE Trim(transferAddress)

\* handleTransfer(event), up to the first await
HandleTransfer ==
    /\ ~MicrotaskPending
    /\ ~transferring                  \* the submit button is disabled while transferring
    /\ IF TransferRejection # ""
       THEN /\ transferStatus' = TransferRejection
            /\ UNCHANGED <<transferring, transferRun>>
       ELSE /\ transferring' = TRUE
            /\ transferStatus' = (IF app = "V2Simple"
                                  THEN "Awaiting wallet confirmation..." ELSE "")
            /\ transferRun' = [IdleRun EXCEPT !.pc = "signer",
                                              !.address = wallet.address,
                                              !.checked = Trim(transferAddress),
                                              !.to = TransferRecipient,
                                              !.tokenId = NumberOf(transferToken)]
    /\ UNCHANGED <<uploadVars, fheVars, simVars, encVars, app, walletVars, mintFormVars, transferToken,
                   transferAddress, revealVars, nfts, localStorage, chainVars,
                   mintRun, revealRuns>>

\* the catch and finally blocks of handleTransfer
TransferFails(message) ==
    /\ transferStatus' = ErrorStatus(message)
    /\ transferring' = FALSE
    /\ transferRun' = IdleRun

\* the signer is there; contract.transferFrom resolves its address arguments
\* (a string that is not an address is looked up as a name, and fails)
TransferSignerReturn ==
    /\ ~MicrotaskPending
    /\ transferRun.pc = "signer"
    /\ IF MatchesAddress(transferRun.to)
       THEN /\ transferRun' = [transferRun EXCEPT
                                  !.pc = "signing",
                                  !.signer = SignerAccount(transferRun.address)]
            /\ UNCHANGED <<transferring, transferStatus>>
       ELSE TransferFails("unconfigured name")
    /\ UNCHANGED <<uploadVars, fheVars, simVars, encVars, app, walletVars, mintFormVars, transferToken,
                   transferAddress, revealVars, nfts, localStorage, chainVars,
                   mintRun, revealRuns>>

\* contract.transferFrom settles: gas estimation reverts, the user rejects,
\* or the transaction is sent
TransferTxReturn(ok) ==
    /\ ~MicrotaskPending
    /\ transferRun.pc = "signing"
    /\ IF ~TransferAllowed(transferRun.signer, AccountOf(transferRun.address),
                           transferRun.tokenId)
       THEN TransferFails("execution reverted")
       ELSE IF ok
       THEN /\ transferStatus' = (IF app = "V2Simple"
                                  THEN "Transaction submitted! Waiting for confirmation..."
                                  ELSE transferStatus)
            /\ transferRun' = [transferRun EXCEPT !.pc = "confirming"]
            /\ UNCHANGED transferring
       ELSE TransferFails("user rejected action")
    /\ UNCHANGED <<uploadVars, fheVars, simVars, encVars, app, walletVars, mintFormVars, transferToken,
                   transferAddress, revealVars, nfts, localStorage, chainVars,
                   mintRun, revealRuns>>

\* the chain executes transferFrom()
TransferMined ==
    /\ ~MicrotaskPending
    /\ transferRun.pc = "confirming"
    /\ IF TransferAllowed(transferRun.signer, AccountOf(transferRun.address),
                          transferRun.tokenId)
       THEN /\ TransferEffect(AccountOf(transferRun.to), transferRun.tokenId)
            /\ transferRun' = [transferRun EXCEPT !.pc = "mined"]
       ELSE /\ transferRun' = [transferRun EXCEPT !.pc = "reverted"]
            /\ UNCHANGED chainVars
    /\ UNCHANGED <<uploadVars, fheVars, simVars, encVars, app, walletVars, mintFormVars, transferFormVars,
                   revealVars, nfts, localStorage, mintRun, revealRuns>>

\* tx.wait() settles; the rest of handleTransfer
TransferWaitReturn ==
    /\ ~MicrotaskPending
    /\ transferRun.pc \in {"mined", "reverted"}
    /\ IF transferRun.pc = "reverted"
       THEN /\ TransferFails("execution reverted")
            /\ UNCHANGED <<transferToken, transferAddress, decryptedAttributes>>
       ELSE IF app = "V2Simple"
       THEN /\ transferStatus' = Succeeded("Transfer completed!")
            /\ transferToken' = ""
            /\ transferAddress' = ""
            /\ transferring' = FALSE
            /\ transferRun' = IdleRun
            /\ UNCHANGED decryptedAttributes
       ELSE /\ transferStatus' = "Transfer completed."
            /\ transferToken' = ""
            /\ transferAddress' = ""
            /\ decryptedAttributes' = Remove(decryptedAttributes,
                                             toString(transferRun.tokenId))
            /\ transferRun' = [transferRun EXCEPT !.pc = "refetching"]
            /\ UNCHANGED transferring
    /\ UNCHANGED <<uploadVars, fheVars, simVars, encVars, app, walletVars, mintFormVars, activeDecrypt,
                   decryptStatus, nfts, localStorage, chainVars, mintRun, revealRuns>>

\* HiddenNFTApp: `await refetchTokens()` settles, then the finally block
TransferRefetchReturn ==
    /\ ~MicrotaskPending
    /\ transferRun.pc = "refetching"
    /\ nfts' = IF HasWallet THEN LoadedTokens(wallet.address) ELSE << >>
    /\ transferring' = FALSE
    /\ transferRun' = IdleRun
    /\ UNCHANGED <<uploadVars, fheVars, simVars, encVars, app, walletVars, mintFormVars, transferToken,
                   transferAddress, transferStatus, revealVars, localStorage,
                   chainVars, mintRun, revealRuns>>

(***************************************************************************)
(* decryptMessage.  Each invocation in flight is an element of revealRuns. *)
(***************************************************************************)
\* localStorage.getItem(`nft_message_${wallet.address}_${tokenId}`) without
\* the cache: the lookup that always misses
CacheLookup_Miss(address, tokenId) == Null

\* localStorage.getItem(`nft_message_${wallet.address}_${tokenId}`)
CacheLookup(address, tokenId) == GetItem(CacheKey(address, tokenId))

\* a JavaScript string in a condition: null and '' are falsy
Truthy(s) == s # Null /\ s # ""

\* the Reveal button of a listed token is enabled
RevealEnabled(tokenId) ==
    /\ HasWallet
    /\ tokenId \in ShownTokens
    /\ activeDecrypt # tokenId
    /\ app = "HiddenNFTApp" => ~InstanceLoading

\* the address the rest of decryptMessage reads from its closure:
\* HiddenNFTApp passes it to userDecrypt, V2Simple does not read it again
ClosureAddress == IF app = "V2Simple" THEN Null ELSE wallet.address

\* the try block of decryptMessage up to the getEncryptedMessage call
StartReveal(tokenId, status) ==
    /\ InFlight < MaxReveals
    /\ activeDecrypt' = tokenId
    /\ decryptStatus' = status
    /\ revealRuns' = revealRuns (+) SetToBag({RevealRun("reading", tokenId,
                                                         ClosureAddress, "")})
    /\ UNCHANGED decryptedAttributes

\* decryptMessage(tokenId), up to the first await
DecryptMessage(tokenId) ==
    /\ ~MicrotaskPending
    /\ RevealEnabled(tokenId)
    /\ IF app = "V2Simple"
       THEN LET localMessage == CacheLookup(wallet.address, tokenId)
            IN  IF Truthy(localMessage)
                THEN /\ decryptedAttributes' = Put(decryptedAttributes,
                                                   toString(tokenId), localMessage)
                     /\ decryptStatus' = Succeeded("Message revealed from local storage!")
                     /\ activeDecrypt' = NoToken
                     /\ UNCHANGED revealRuns
                ELSE StartReveal(tokenId, "Decrypting with FHE...")
       ELSE IF ~InstanceReady
            THEN /\ decryptStatus' = "Encryption service is not ready."
                 /\ UNCHANGED <<decryptedAttributes, activeDecrypt, revealRuns>>
            ELSE StartReveal(tokenId, "")
    /\ UNCHANGED <<uploadVars, fheVars, simVars, encVars, app, walletVars, mintFormVars, transferFormVars,
                   nfts, localStorage, chainVars, mintRun, transferRun>>

\* the run r goes on as run q
Continue(r, q) ==
    /\ revealRuns' = (revealRuns (-) SetToBag({r})) (+) SetToBag({q})
    /\ UNCHANGED revealVars

\* a catch block that reports the error and reads the handle again
RevealFails_Retry(r, message) ==
    /\ decryptStatus' = ErrorStatus(message)
    /\ revealRuns' = (revealRuns (-) SetToBag({r}))
                        (+) SetToBag({[r EXCEPT !.pc = "reading"]})
    /\ UNCHANGED <<activeDecrypt, decryptedAttributes>>

\* the catch block of decryptMessage without the finally block
RevealFails_NoFinally(r, message) ==
    /\ decryptStatus' = ErrorStatus(message)
    /\ revealRuns' = revealRuns (-) SetToBag({r})
    /\ UNCHANGED <<activeDecrypt, decryptedAttributes>>

\* the catch and finally blocks of decryptMessage
RevealFails(r, message) ==
    /\ decryptStatus' = ErrorStatus(message)
    /\ activeDecrypt' = NoToken
    /\ revealRuns' = revealRuns (-) SetToBag({r})
    /\ UNCHANGED decryptedAttributes

\* HiddenNFTApp's test of the handle it read
EmptyHandle(handle) == handle = "" \/ handle = "0x" \/ handle = "0x00"

\* the getEncryptedMessage call settles
RevealReadReturn(r, reachable) ==
    /\ ~MicrotaskPending
    /\ BagIn(r, revealRuns)
    /\ r.pc = "reading"
    /\ LET res == IF reachable THEN getEncryptedMessage(r.token)
                  ELSE [ok |-> FALSE, value |-> "", error |-> "network error"]
       IN  IF ~res.ok THEN RevealFails(r, res.error)
           ELSE IF app = "V2Simple"
           THEN Continue(r, [r EXCEPT !.pc = "decrypting", !.handle = res.value])
           ELSE IF EmptyHandle(res.value)
           THEN RevealFails(r, "Message is empty for this token.")
           ELSE Continue(r, [r EXCEPT !.pc = "signing", !.handle = res.value])
    /\ UNCHANGED <<uploadVars, fheVars, simVars, encVars, app, walletVars, mintFormVars, transferFormVars,
                   nfts, localStorage, chainVars, mintRun, transferRun>>

\* HiddenNFTApp: signer.signTypedData settles
RevealSignReturn(r, ok) ==
    /\ ~MicrotaskPending
    /\ BagIn(r, revealRuns)
    /\ r.pc = "signing"
    /\ IF ok THEN Continue(r, [r EXCEPT !.pc = "decrypting"])
       ELSE RevealFails(r, "user rejected action")
    /\ UNCHANGED <<uploadVars, fheVars, simVars, encVars, app, walletVars, mintFormVars, transferFormVars,
                   nfts, localStorage, chainVars, mintRun, transferRun>>

\* instance.userDecrypt: the relayer's answer, result[handle]
userDecrypt(handle, reachable) ==
    IF reachable THEN [ok |-> TRUE, value |-> PlainOf(handle), error |-> ""]
    ELSE [ok |-> FALSE, value |-> "", error |-> "relayer unavailable"]

\* what V2Simple displays for a token it could not decrypt
EncryptedPlaceholder == "Message encrypted on-chain. Only owner with local key can view."

\* the decryption settles; the rest of decryptMessage
RevealDecryptReturn(r, reachable) ==
    /\ BagIn(r, revealRuns)
    /\ r.pc = "decrypting"
    /\ IF app = "V2Simple"
       THEN LET res == decryptUint256(r.handle, CONTRACT_ADDRESS)
            IN  /\ reachable
                /\ IF res.ok
                   THEN /\ decryptedAttributes' = Put(decryptedAttributes,
                                                      toString(r.token), res.value)
                        /\ decryptStatus' = Succeeded("Message decrypted!")
                   ELSE /\ decryptedAttributes' =
                              Put(decryptedAttributes, toString(r.token),
                                  EncryptedPlaceholder)
                        /\ decryptStatus' = Informed("Message is FHE-encrypted on blockchain")
                /\ activeDecrypt' = NoToken
                /\ revealRuns' = revealRuns (-) SetToBag({r})
       ELSE LET res == userDecrypt(r.handle, reachable)
            IN  IF ~res.ok THEN RevealFails(r, res.error)
                ELSE IF ~Truthy(res.value)
                THEN RevealFails(r, "Decryption did not return a value.")
                ELSE /\ decryptedAttributes' = Put(decryptedAttributes,
                                                   toString(r.token), res.value)
                     /\ activeDecrypt' = NoToken
                     /\ revealRuns' = revealRuns (-) SetToBag({r})
                     /\ UNCHANGED decryptStatus
    /\ UNCHANGED <<uploadVars, fheVars, simVars, encVars, app, walletVars, mintFormVars, transferFormVars,
                   nfts, localStorage, chainVars, mintRun, transferRun>>

\* useZamaInstance: createInstance settles
InstanceReturn(ok) ==
    /\ ~MicrotaskPending
    /\ "createInstance" \in pendingOps
    /\ pendingOps' = (pendingOps \ {"createInstance"})
                        \cup (IF ok THEN {} ELSE {"instanceError"})
    /\ UNCHANGED <<uploadVars, fheVars, simVars, encVars, app, selected, wallet, mintFormVars, transferFormVars,
                   revealVars, nfts, localStorage, chainVars, runVars>>

(***************************************************************************)
(* The workflow specification: every action with every input.  The         *)
(* specifications after it restrict Next to the actions and inputs of one  *)
(* part of the workflow, which keeps their state spaces finite and small.  *)
(***************************************************************************)
Init == InitApp /\ UploadUnused

Next ==
    \/ \E authorized \in BOOLEAN : CheckConnection(authorized)
    \/ \E a \in Accounts : AccountsChanged(a)
    \/ Disconnect
    \/ ConnectStart
    \/ \E outcome \in {"accounts", "empty", "error"} : ConnectReturn(outcome)
    \/ \E ok \in BOOLEAN : InstanceReturn(ok)
    \/ \E v \in MintInputs : SetMintValue(v)
    \/ \E f \in ImageInputs \cup {NoFile} : SetSelectedImage(f)
    \/ \E v \in TokenInputs : SetTransferToken(v)
    \/ \E v \in AddressInputs : SetTransferAddress(v)
    \/ (nextTokenId <= MaxTokens /\ HandleMint)
    \/ \E p, r \in BOOLEAN : MintUploadReturn(p, r)
    \/ \E ok \in BOOLEAN : MintEncryptReturn(ok)
    \/ MintSignerReturn
    \/ \E ok \in BOOLEAN : MintTxReturn(ok)
    \/ \E m \in {ZeroHandle} \cup {Hex32(i) : i \in 1..Len(MessageList)} : MintMined(m)
    \/ MintWaitReturn
    \/ MintRefetchReturn
    \/ LoadNFTs
    \/ HandleTransfer
    \/ TransferSignerReturn
    \/ \E ok \in BOOLEAN : TransferTxReturn(ok)
    \/ TransferMined
    \/ TransferWaitReturn
    \/ TransferRefetchReturn
    \/ \E t \in 0..MaxTokens : DecryptMessage(t)
    \/ \E r \in BagToSet(revealRuns), ok \in BOOLEAN : RevealReadReturn(r, ok)
    \/ \E r \in BagToSet(revealRuns), ok \in BOOLEAN : RevealSignReturn(r, ok)
    \/ \E r \in BagToSet(revealRuns), ok \in BOOLEAN : RevealDecryptReturn(r, ok)

Spec == Init /\ [][Next]_vars

(***************************************************************************)
(* The reveal specification: both components, one account; tokens are      *)
(* minted with the valid form input and revealed concurrently.             *)
(***************************************************************************)
NextReveal ==
    \/ \E authorized \in BOOLEAN : CheckConnection(authorized)
    \/ \E ok \in BOOLEAN : InstanceReturn(ok)
    \/ SetMintValue("hello")
    \/ SetSelectedImage(SmallPng)
    \/ (nextTokenId <= MaxTokens /\ HandleMint)
    \/ MintUploadReturn(TRUE, TRUE)
    \/ MintEncryptReturn(TRUE)
    \/ MintSignerReturn
    \/ MintTxReturn(TRUE)
    \/ \E m \in {ZeroHandle} \cup {Hex32(i) : i \in 1..Len(MessageList)} : MintMined(m)
    \/ MintWaitReturn
    \/ MintRefetchReturn
    \/ LoadNFTs
    \/ \E t \in 0..MaxTokens : DecryptMessage(t)
    \/ \E r \in BagToSet(revealRuns), ok \in BOOLEAN : RevealReadReturn(r, ok)
    \/ \E r \in BagToSet(revealRuns), ok \in BOOLEAN : RevealSignReturn(r, ok)
    \/ \E r \in BagToSet(revealRuns), ok \in BOOLEAN : RevealDecryptReturn(r, ok)

SpecReveal == Init /\ [][NextReveal]_vars

(***************************************************************************)
(* The cache specification: HiddenNFTAppV2Simple with its local plaintext  *)
(* cache, while the user switches accounts in the wallet extension.        *)
(***************************************************************************)
NextCache ==
    \/ \E authorized \in BOOLEAN : CheckConnection(authorized)
    \/ \E a \in Accounts : AccountsChanged(a)
    \/ SetMintValue("hello")
    \/ SetSelectedImage(SmallPng)
    \/ (nextTokenId <= MaxMints /\ HandleMint)
    \/ MintUploadReturn(TRUE, TRUE)
    \/ MintEncryptReturn(TRUE)
    \/ MintSignerReturn
    \/ MintTxReturn(TRUE)
    \/ MintMined(mintRun.handle)
    \/ MintWaitReturn
    \/ LoadNFTs
    \/ \E t \in 0..MaxMints : DecryptMessage(t)
    \/ \E r \in BagToSet(revealRuns) : RevealReadReturn(r, TRUE)
    \/ \E r \in BagToSet(revealRuns) : RevealDecryptReturn(r, TRUE)

InitCache == Init /\ app = "V2Simple"

SpecCache == InitCache /\ [][NextCache]_vars


(***************************************************************************)
(* The mint specification: both components, every input of the mint form   *)
(* and every outcome of the collaborators of handleMint, while the user    *)
(* connects, disconnects and switches accounts.                            *)
(***************************************************************************)
NextMint ==
    \/ \E authorized \in BOOLEAN : CheckConnection(authorized)
    \/ \E a \in Accounts : AccountsChanged(a)
    \/ ConnectStart
    \/ \E outcome \in {"accounts", "empty", "error"} : ConnectReturn(outcome)
    \/ Disconnect
    \/ \E ok \in BOOLEAN : InstanceReturn(ok)
    \/ \E v \in MintInputs : SetMintValue(v)
    \/ \E f \in ImageInputs \cup {NoFile} : SetSelectedImage(f)
    \/ (nextTokenId <= MaxMints /\ HandleMint)
    \/ \E p, r \in BOOLEAN : MintUploadReturn(p, r)
    \/ \E ok \in BOOLEAN : MintEncryptReturn(ok)
    \/ MintSignerReturn
    \/ \E ok \in BOOLEAN : MintTxReturn(ok)
    \/ MintMined(mintRun.handle)
    \/ MintWaitReturn
    \/ MintRefetchReturn

SpecMint == Init /\ [][NextMint]_vars

(***************************************************************************)
(* The transfer specification: both components; a token is minted with the *)
(* valid form input, then the transfer form takes every input.             *)
(***************************************************************************)
NextTransfer ==
    \/ \E authorized \in BOOLEAN : CheckConnection(authorized)
    \/ \E ok \in BOOLEAN : InstanceReturn(ok)
    \/ SetMintValue("hello")
    \/ SetSelectedImage(SmallPng)
    \/ (nextTokenId <= MaxMints /\ HandleMint)
    \/ MintUploadReturn(TRUE, TRUE)
    \/ MintEncryptReturn(TRUE)
    \/ MintSignerReturn
    \/ MintTxReturn(TRUE)
    \/ MintMined(mintRun.handle)
    \/ MintWaitReturn
    \/ MintRefetchReturn
    \/ LoadNFTs
    \/ \E v \in TokenInputs : SetTransferToken(v)
    \/ \E v \in AddressInputs : SetTransferAddress(v)
    \/ HandleTransfer
    \/ TransferSignerReturn
    \/ \E ok \in BOOLEAN : TransferTxReturn(ok)
    \/ TransferMined
    \/ TransferWaitReturn
    \/ TransferRefetchReturn
    \/ \E t \in 0..MaxMints : DecryptMessage(t)
    \/ \E r \in BagToSet(revealRuns) : RevealReadReturn(r, TRUE)
    \/ \E r \in BagToSet(revealRuns) : RevealSignReturn(r, TRUE)
    \/ \E r \in BagToSet(revealRuns) : RevealDecryptReturn(r, TRUE)

SpecTransfer == Init /\ [][NextTransfer]_vars

(***************************************************************************)
(* The retry specification: both components, valid form input, every       *)
(* outcome of every collaborator of the three handlers; the user asks for  *)
(* one reveal at a time.                                                   *)
(***************************************************************************)
NextRetry ==
    \/ \E authorized \in BOOLEAN : CheckConnection(authorized)
    \/ \E ok \in BOOLEAN : InstanceReturn(ok)
    \/ SetMintValue("hello")
    \/ SetSelectedImage(SmallPng)
    \/ (nextTokenId <= MaxMints /\ HandleMint)
    \/ \E p, r \in BOOLEAN : MintUploadReturn(p, r)
    \/ \E ok \in BOOLEAN : MintEncryptReturn(ok)
    \/ MintSignerReturn
    \/ \E ok \in BOOLEAN : MintTxReturn(ok)
    \/ MintMined(mintRun.handle)
    \/ MintWaitReturn
    \/ MintRefetchReturn
    \/ LoadNFTs
    \/ SetTransferToken("1")
    \/ SetTransferAddress(LowerAddress("B"))
    \/ HandleTransfer
    \/ TransferSignerReturn
    \/ \E ok \in BOOLEAN : TransferTxReturn(ok)
    \/ TransferMined
    \/ TransferWaitReturn
    \/ TransferRefetchReturn
    \/ \E t \in 0..MaxMints : InFlight = 0 /\ DecryptMessage(t)
    \/ \E r \in BagToSet(revealRuns), ok \in BOOLEAN : RevealReadReturn(r, ok)
    \/ \E r \in BagToSet(revealRuns), ok \in BOOLEAN : RevealSignReturn(r, ok)
    \/ \E r \in BagToSet(revealRuns), ok \in BOOLEAN : RevealDecryptReturn(r, ok)

SpecRetry == Init /\ [][NextRetry]_vars

(***************************************************************************)
(* The contract specification: HiddenAttributeNFT alone.  Transactions are *)
(* sent by the externally owned accounts and by a contract account; a mint *)
(* by the contract account stops in its onERC721Received callback, where   *)
(* it may mint again, transfer its tokens, accept or revert.  (_nextTokenId *)
(* is a uint256: the unchecked increment cannot wrap within the bound.)    *)
(***************************************************************************)
\* the encrypted inputs the relayer produced, one per account: an input
\* proof is bound to the account it was made for
InputOf == [account \in Callers |->
               Hex32(CHOOSE i \in 1..3 : <<"A", "B", Receiver>>[i] = account)]

\* the handles of those inputs
InputHandles == {InputOf[account] : account \in Callers}

\* a mint call of `sender` that waits for onERC721Received to return; saved
\* is the storage a revert of the call restores
MintFrame(sender, tokenId, handle, saved) ==
    [sender |-> sender, tokenId |-> tokenId, handle |-> handle, saved |-> saved]

\* the innermost waiting call
Top == callStack[Len(callStack)]

\* between transactions any account calls; during a callback only the
\* contract that runs it
MayCall(sender) ==
    IF callStack = << >> THEN sender \in Callers ELSE sender = Receiver

\* mint(): the id, the increment and _safeMint; for an externally owned
\* sender the rest of the function too
ContractMint(sender, handle, message) ==
    /\ MayCall(sender)
    /\ ~Exists(nextTokenId)          \* else _safeMint reverts
    /\ handle = InputOf[sender]      \* else FHE.fromExternal reverts
    /\ IF IsContract(sender)
       THEN /\ Len(callStack) < MaxDepth
            /\ message = handle
            /\ nextTokenId' = nextTokenId + 1
            /\ owners' = owners @@ (nextTokenId :> sender)
            /\ allowed' = UpdateGrants(allowed, tokenMessages, sender, nextTokenId)
            /\ callStack' = Append(callStack,
                                   MintFrame(sender, nextTokenId, handle, Storage))
            /\ UNCHANGED tokenMessages
       ELSE /\ message \in FromExternal(handle)
            /\ MintEffect(sender, message)
    /\ UNCHANGED <<uploadVars, fheVars, simVars, encVars, app, walletVars, mintFormVars, transferFormVars,
                   revealVars, nfts, localStorage, runVars>>

\* onERC721Received returns: accepted, the mint goes on from
\* FHE.fromExternal to its end; otherwise the call reverts
ReceiverReturn(accept, message) ==
    /\ callStack # << >>
    /\ IF accept
       THEN /\ message \in FromExternal(Top.handle)
            /\ tokenMessages' = StoreMessage(tokenMessages, Top.tokenId, message)
            /\ allowed' = MintGrants(allowed, message, Top.sender)
            /\ UNCHANGED <<nextTokenId, owners>>
       ELSE /\ message = Top.handle
            /\ nextTokenId' = Top.saved.nextTokenId
            /\ owners' = Top.saved.owners
            /\ tokenMessages' = Top.saved.tokenMessages
            /\ allowed' = Top.saved.allowed
    /\ callStack' = SubSeq(callStack, 1, Len(callStack) - 1)
    /\ UNCHANGED <<uploadVars, fheVars, simVars, encVars, app, walletVars, mintFormVars, transferFormVars,
                   revealVars, nfts, localStorage, runVars>>

\* transferFrom(sender, to, tokenId) sent by the owner of the token
ContractTransfer(sender, to, tokenId) ==
    /\ MayCall(sender)
    /\ TransferAllowed(sender, sender, tokenId)
    /\ TransferEffect(to, tokenId)
    /\ UNCHANGED <<uploadVars, fheVars, simVars, encVars, app, walletVars, mintFormVars, transferFormVars,
                   revealVars, nfts, localStorage, runVars>>

InitContract == AppUnused /\ UploadUnused

NextContract ==
    \/ \E sender \in Callers, handle \in InputHandles,
          message \in InputHandles \cup {ZeroHandle} :
          nextTokenId <= MaxTokens /\ ContractMint(sender, handle, message)
    \/ \E accept \in BOOLEAN, message \in InputHandles \cup {ZeroHandle} :
          ReceiverReturn(accept, message)
    \/ \E sender, to \in Callers, tokenId \in 1..MaxTokens :
          ContractTransfer(sender, to, tokenId)

SpecContract == InitContract /\ [][NextContract]_vars

(***************************************************************************)
(* Inputs of the upload specification.                                     *)
(***************************************************************************)
\* file sizes around the two ceilings, in bytes
FileSizes == {0, 50 * 1024, maxBase64Size - 1, maxBase64Size, maxBase64Size + 1,
              5 * 1024 * 1024, maxSize, maxSize + 1}

FileTypes == {"image/png", "image/", "text/plain", ""}

UploadFiles == [type : FileTypes, size : FileSizes, data : {"IMG"}]

UploadEnvs == [apiKey : {"", "key"}, apiSecret : {"", "secret"},
               pinataOk : BOOLEAN, readOk : BOOLEAN]

InitUpload ==
    /\ upFile \in UploadFiles
    /\ upEnv \in UploadEnvs
    /\ upPc = "call"
    /\ upResult = NoUploadResult
    /\ AppUnused

\* one call of uploadImage(upFile)
UploadImageCall ==
    /\ upPc = "call"
    /\ upResult' = uploadImage(upFile, upEnv)
    /\ upPc' = "done"
    /\ UNCHANGED <<upFile, upEnv, fheVars, simVars, encVars, appVars>>

NextUpload == UploadImageCall

SpecUpload == InitUpload /\ [][NextUpload]_vars

(***************************************************************************)
(* The validation specification: the mint form with every input up to the *)
(* upload, next to calls of uploadImage with files of every kind.          *)
(***************************************************************************)
ValidationFiles == [type : {"image/png", "text/plain", ""},
                    size : {50 * 1024, maxSize, maxSize + 1}, data : {"IMG"}]

ValidationEnvs == [apiKey : {"", "key"}, apiSecret : {"secret"},
                   pinataOk : {TRUE}, readOk : {TRUE}]

InitValidation ==
    /\ InitApp
    /\ upFile \in ValidationFiles
    /\ upEnv \in ValidationEnvs
    /\ upPc = "call"
    /\ upResult = NoUploadResult

NextValidation ==
    \/ \E authorized \in BOOLEAN : CheckConnection(authorized)
    \/ \E ok \in BOOLEAN : InstanceReturn(ok)
    \/ \E v \in MintInputs : SetMintValue(v)
    \/ \E f \in ImageInputs \cup {NoFile} : SetSelectedImage(f)
    \/ HandleMint
    \/ \E p, r \in BOOLEAN : MintUploadReturn(p, r)
    \/ UploadImageCall

SpecValidation == InitValidation /\ [][NextValidation]_vars

(***************************************************************************)
(* Claims about uploadImage.                                               *)
(***************************************************************************)
PassesChecks(file) == StartsWith(file.type, "image/") /\ file.size <= maxSize

HostConfigured(env) == env.apiKey # "" /\ env.apiSecret # ""

SizeErrors == {"Image too large for on-chain storage", "Image must be less than 10MB"}

\* C5: with no content-addressed host configured, uploadImage fails with a
\* size error for every image file of size >= the inline ceiling (100KB) and
\* never returns an inline data URI for it.
C5_InlineCeilingInclusive ==
    (upPc = "done" /\ ~HostConfigured(upEnv)
        /\ StartsWith(upFile.type, "image/") /\ upFile.size >= maxBase64Size)
    => (~upResult.ok /\ upResult.error \in SizeErrors /\ upResult.via # "base64")

\* C6 as stated: every file that passes the MIME check and the 10MB check
\* gets an UploadResult with an imageUri and a previewUrl, whatever the host
\* configuration or reachability.
C6_AlwaysReturns ==
    (upPc = "done" /\ PassesChecks(upFile))
    => (upResult.ok /\ upResult.imageUri # "" /\ upResult.previewUrl # "")

\* C6 amended: a file that passes the MIME and 10MB checks gets an
\* UploadResult (non-empty imageUri and previewUrl) exactly when the host
\* upload is attempted and succeeds, or the file is at most 100KB and the
\* file read succeeds; otherwise uploadImage throws: the on-chain size error
\* for a file over 100KB, the read error for a file of at most 100KB.
C6_ReturnsOrThrows ==
    (upPc = "done" /\ PassesChecks(upFile))
    => LET hostOk == HostConfigured(upEnv) /\ upEnv.pinataOk
       IN  /\ upResult.ok <=> (hostOk \/ (upFile.size <= maxBase64Size /\ upEnv.readOk))
           /\ upResult.ok => (upResult.imageUri # "" /\ upResult.previewUrl # "")
           /\ (~upResult.ok /\ upFile.size > maxBase64Size)
                 => upResult.error = "Image too large for on-chain storage"
           /\ (~upResult.ok /\ upFile.size <= maxBase64Size)
                 => upResult.error = "Failed to read file"

\* C6 witness: a 50KB image, host unreachable, returned inline
C6_Witness ==
    /\ upPc = "done"
    /\ PassesChecks(upFile)
    /\ ~(HostConfigured(upEnv) /\ upEnv.pinataOk)
    /\ upFile.size = 50 * 1024
    /\ upResult.ok
    /\ upResult.via = "base64"

(***************************************************************************)
(* Claims about the local plaintext cache (SpecCache).                     *)
(***************************************************************************)
\* the status is an error status: it begins with the failure marker
IsErrorStatus(status) == StartsWith(status, Failed(""))

\* handleMint has processed the confirmation of token t
MintConfirmed(t) == Exists(t) /\ ~(mintRun.pc = "mined" /\ mintRun.tokenId = t)

\* C1: in HiddenNFTAppV2Simple, for every token T whose mint by account A
\* with message m is confirmed, a reveal of T requested by A in the same
\* browser sets the revealed value of T to exactly m (from the cache entry
\* handleMint wrote).
C1_CacheRoundTrip ==
    [][\A t \in 1..MaxMints :
          (/\ app = "V2Simple"
           /\ DecryptMessage(t)
           /\ MintConfirmed(t)
           /\ owners[t] = AccountOf(wallet.address)
           /\ Len(PlainOf(tokenMessages[t])) <= maxLength)
          => (/\ toString(t) \in DOMAIN decryptedAttributes'
              /\ decryptedAttributes'[toString(t)] = PlainOf(tokenMessages[t]))]_vars

\* C9: when decryptMessage finds a non-empty cache entry for (current
\* account, token id), that step sets the revealed value to the entry,
\* starts no handle read and no decryption, and leaves no reveal in flight
\* marked active.
C9_CacheHitFastPath ==
    [][\A t \in 0..MaxTokens :
          (/\ DecryptMessage(t)
           /\ app = "V2Simple"
           /\ Truthy(GetItem(CacheKey(wallet.address, t))))
          => (/\ toString(t) \in DOMAIN decryptedAttributes'
              /\ decryptedAttributes'[toString(t)] = GetItem(CacheKey(wallet.address, t))
              /\ revealRuns' = revealRuns
              /\ activeDecrypt' = NoToken
              /\ ~IsErrorStatus(decryptStatus'))]_vars

\* C9 witness: the fast path has revealed token 1 from the cache
C9_Witness ==
    /\ app = "V2Simple"
    /\ decryptStatus = Succeeded("Message revealed from local storage!")
    /\ "1" \in DOMAIN decryptedAttributes
    /\ decryptedAttributes["1"] = "hello"
    /\ GetItem(CacheKey(wallet.address, 1)) = "hello"
    /\ revealRuns = EmptyBag

\* C10: when the cache missed and decryptUint256 was called and threw, the
\* step that ends that decryptMessage sets the token's revealed value to the
\* fixed placeholder and decryptStatus to the informational message, not to
\* an error status, and clears activeDecrypt.
C10_PlaceholderOnDecryptFailure ==
    [][\A r \in BagToSet(revealRuns) :
          (/\ app = "V2Simple"
           /\ r.pc = "decrypting"
           /\ revealRuns' = revealRuns (-) SetToBag({r}))
          => (/\ toString(r.token) \in DOMAIN decryptedAttributes'
              /\ decryptedAttributes'[toString(r.token)] = EncryptedPlaceholder
              /\ decryptStatus' = Informed("Message is FHE-encrypted on blockchain")
              /\ ~IsErrorStatus(decryptStatus')
              /\ activeDecrypt' = NoToken)]_vars

\* C10 witness: a reveal of token 1 missed the cache and ended in the
\* placeholder
C10_Witness ==
    /\ app = "V2Simple"
    /\ "1" \in DOMAIN decryptedAttributes
    /\ decryptedAttributes["1"] = EncryptedPlaceholder
    /\ decryptStatus = Informed("Message is FHE-encrypted on blockchain")
    /\ activeDecrypt = NoToken
    /\ revealRuns = EmptyBag

(***************************************************************************)
(* Claims about concurrent reveals (SpecReveal).                           *)
(***************************************************************************)
\* the decryption-collaborator invocations outstanding for token t
OutstandingDecrypts(t) ==
    BagCardinality([r \in {q \in BagToSet(revealRuns) :
                              q.token = t /\ q.pc = "decrypting"}
                      |-> CopiesIn(r, revealRuns)])

\* C3: over every interleaving of reveal requests, at most one
\* decryption-collaborator invocation for a given token id is outstanding
\* at any time.
C3_SingleFlight == \A t \in 0..MaxTokens : OutstandingDecrypts(t) <= 1

\* the ciphertext handle of token t is unset or all-zero
HandleUnset(t) == ~Exists(t) \/ ~IsInitialized(tokenMessages[t])

\* how a failed getEncryptedMessage call shows in decryptStatus
ReadFailures ==
    {ErrorStatus("AttributeNotInitialized"), ErrorStatus("ERC721NonexistentToken"),
     ErrorStatus("network error")}

TransferValidationMessages ==
    {"Please connect your wallet first.", "Enter a valid Ethereum address (0x...)",
     "Enter a valid token ID (must be a number)", "Connect a wallet first.",
     "Enter a valid recipient address.", "Enter a valid token id."}

\* C8: handleTransfer with a recipient that does not match the address
\* pattern after trimming sets a validation status and changes nothing else
\* (no signer, no transaction; transferring, the form fields, the cache and
\* the revealed map stay as they were); and on the accepted path the address
\* passed to transferFrom is the string that was validated.
C8_RecipientValidated ==
    [][/\ (HandleTransfer /\ ~MatchesAddress(Trim(transferAddress)))
          => (/\ transferStatus' \in TransferValidationMessages
              /\ UNCHANGED <<transferring, transferToken, transferAddress,
                             transferRun, localStorage, decryptedAttributes,
                             chainVars>>)
       /\ transferRun'.pc # "idle" => transferRun'.to = transferRun'.checked]_vars

\* C2: once handleTransfer has processed the confirmation of a transfer of
\* token T away from account A, the local cache holds no entry for (A, T).
C2_CachePurgedOnTransfer ==
    \A t \in DOMAIN owners : \A a \in Accounts :
        (/\ owners[t] # a
         /\ \/ GetItem(CacheKey(LowerAddress(a), t)) # Null
            \/ GetItem(CacheKey(ChecksumAddress(a), t)) # Null)
        => (transferRun.pc = "mined" /\ transferRun.tokenId = t)

(***************************************************************************)
(* Claims about the contract (SpecContract).                               *)
(***************************************************************************)
\* a mint call begins or ends in this step
MintStep ==
    \/ \E sender \in Callers, handle \in InputHandles,
          message \in InputHandles \cup {ZeroHandle} :
          ContractMint(sender, handle, message)
    \/ \E accept \in BOOLEAN, message \in InputHandles \cup {ZeroHandle} :
          ReceiverReturn(accept, message)

\* a transferFrom call is executed in this step
TransferStep ==
    \E sender, to \in Callers, tokenId \in 1..(MaxTokens + 1) :
        ContractTransfer(sender, to, tokenId)

\* C12: the stored handle of a token is written once, by mint, and no later
\* mint or transfer changes it; a transfer (_update) changes only owners and
\* grants; between transactions every token has its stored handle.
C12_HandleWrittenOnce ==
    [][/\ \A t \in DOMAIN tokenMessages \cap DOMAIN tokenMessages' :
             tokenMessages'[t] = tokenMessages[t]
       /\ tokenMessages' # tokenMessages => MintStep
       /\ TransferStep => UNCHANGED <<tokenMessages, nextTokenId, callStack>>
       /\ callStack' = << >> => DOMAIN tokenMessages' = DOMAIN owners']_vars

\* C12 witness: two tokens with different handles, one of them transferred
\* (its handle has a second grantee)
C12_Witness ==
    /\ callStack = << >>
    /\ \E t, u \in DOMAIN tokenMessages :
          /\ tokenMessages[t] # tokenMessages[u]
          /\ IsInitialized(tokenMessages[t]) /\ IsInitialized(tokenMessages[u])
          /\ Cardinality(Grantees(tokenMessages[t]) \ {This}) >= 2
          /\ owners[t] # owners[u]

\* the storage before the executing transaction began
Committed == IF callStack = << >> THEN Storage ELSE callStack[1].saved

\* C13: the ids in use are always exactly 1 .. _nextTokenId - 1 (the first
\* mint gets 1, each mint the id after the one before it, none twice), a
\* mint call takes _nextTokenId and increments it, also when re-entered from
\* onERC721Received, and a transaction never removes a token that existed
\* before it.
C13_MonotoneIds ==
    [][/\ DOMAIN owners' = 1..(nextTokenId' - 1)
       /\ \A sender \in Callers, handle \in InputHandles,
             message \in InputHandles \cup {ZeroHandle} :
             ContractMint(sender, handle, message)
             => (/\ nextTokenId' = nextTokenId + 1
                 /\ DOMAIN owners' = DOMAIN owners \cup {nextTokenId}
                 /\ nextTokenId \notin DOMAIN owners
                 /\ owners'[nextTokenId] = sender)
       /\ callStack' = << >> => DOMAIN Committed.owners \subseteq DOMAIN owners']_vars

\* C13 witness: a mint re-entered from the callback of another mint; the
\* outer call holds id 1 and the inner call id 2
C13_Witness ==
    /\ Len(callStack) = 2
    /\ callStack[1].tokenId = 1
    /\ callStack[2].tokenId = 2

\* C14: between transactions, the accounts granted decryption of a token's
\* (initialized) message are exactly the token's owner and the contract.
C14_OnlyOwnerDecrypts ==
    callStack = << >>
    => \A t \in DOMAIN tokenMessages :
          IsInitialized(tokenMessages[t])
          => Grantees(tokenMessages[t]) = {owners[t], This}

(***************************************************************************)
(* Claims about the revealed map after a transfer (SpecTransfer).          *)
(***************************************************************************)
\* C11: the step in which handleTransfer processes the confirmation of a
\* transfer of token T leaves T out of the revealed map, in each component,
\* so that T is shown hidden.
C11_RevealResetOnTransfer ==
    [][(TransferWaitReturn /\ transferRun.pc = "mined")
          => toString(transferRun.tokenId) \notin DOMAIN decryptedAttributes']_vars

\* the text is a non-negative integer numeral
IsTokenIdText(s) == s # "" /\ \A i \in 1..Len(s) : IsDigit(CharAt(s, i))

C15_ValidationBeforeExternalCalls ==
    [][/\ (HandleMint /\ (~HasWallet \/ selectedImage = NoFile \/ Trim(mintValue) = ""))
          => (/\ mintRun' = IdleRun
              /\ ~minting'
              /\ mintStatus' # ""
              /\ UNCHANGED <<uploadVars, fheVars, simVars, encVars, localStorage, chainVars>>)
       /\ (UploadImageCall /\ (~StartsWith(upFile.type, "image/") \/ upFile.size > maxSize))
          => (/\ ~upResult'.ok
              /\ ~upResult'.pinataTried /\ ~upResult'.posted /\ ~upResult'.read)]_vars

\* C15 witness: a blank message was rejected with wallet and image present,
\* and a text file was refused by uploadImage with the host configured
C15_Witness ==
    /\ HasWallet /\ selectedImage # NoFile /\ mintValue = "  "
    /\ mintStatus = "Please enter a message for the NFT."
    /\ mintRun = IdleRun
    /\ upPc = "done" /\ upFile.type = "text/plain" /\ upEnv.apiKey # ""
    /\ upResult.error = "File must be an image"
    /\ ~upResult.posted

(***************************************************************************)
(* Claims about the stages of handleMint (SpecMint).                       *)
(***************************************************************************)
\* the order of the awaits of handleMint: upload, encrypt, submit (signer,
\* contract.mint), confirmation (tx.wait), then the rest of the handler
StageOrder ==
    {<<"idle", "uploading">>, <<"uploading", "encrypting">>,
     <<"encrypting", "signer">>, <<"signer", "signing">>,
     <<"signing", "confirming">>, <<"confirming", "mined">>,
     <<"confirming", "reverted">>, <<"mined", "refetching">>}

Aborted(reason) ==
    /\ mintRun' = IdleRun
    /\ ~minting'
    /\ mintStatus' = ErrorStatus(reason)
    /\ UNCHANGED <<mintValue, selectedImage, localStorage, chainVars>>

\* C18: a failed stage of handleMint ends the run: a failed upload, a
\* failed encryption, a rejected transaction and a reverted transaction
\* each leave no stage pending, keep the form fields, write no cache entry
\* and set the status to the failure's reason; a run ends only in this way
\* or after its last stage.
C18_FailureAborts ==
    [][/\ \A p, r \in BOOLEAN :
             LET res == uploadImage(mintRun.image,
                                    [AppUploadEnv EXCEPT !.pinataOk = p, !.readOk = r])
             IN  (MintUploadReturn(p, r) /\ ~res.ok) => Aborted(res.error)
       /\ MintEncryptReturn(FALSE)
          => Aborted("Failed to encrypt message: relayer unavailable")
       /\ MintTxReturn(FALSE) => Aborted("user rejected action")
       /\ (MintWaitReturn /\ mintRun.pc = "reverted") => Aborted("execution reverted")
       /\ (mintRun.pc # "idle" /\ mintRun'.pc = "idle")
          => \/ mintRun.pc \in {"mined", "refetching"}
             \/ \E reason \in {"Failed to read file",
                               "Failed to encrypt message: relayer unavailable",
                               "user rejected action", "execution reverted"} :
                   Aborted(reason)]_vars

\* C18 witness: a mint of HiddenNFTAppV2Simple ended in the revert of its
\* transaction, the form still filled in
C18_Witness ==
    /\ app = "V2Simple"
    /\ mintRun = IdleRun /\ ~minting
    /\ mintStatus = Failed("execution reverted")
    /\ mintValue = "hello" /\ selectedImage = SmallPng
    /\ localStorage = EmptyMap
    /\ nextTokenId = FirstTokenId

(***************************************************************************)
(* Claims about retries (SpecRetry).                                       *)
(***************************************************************************)
\* the order of the awaits of handleTransfer
TransferOrder ==
    {<<"idle", "signer">>, <<"signer", "signing">>, <<"signing", "confirming">>,
     <<"confirming", "mined">>, <<"confirming", "reverted">>,
     <<"mined", "refetching">>}

\* the order of the awaits of decryptMessage
RevealOrder ==
    {<<"reading", "signing">>, <<"reading", "decrypting">>,
     <<"signing", "decrypting">>}

\* a collaborator of handleMint answers in this step
MintAnswer ==
    \/ \E p, r \in BOOLEAN : MintUploadReturn(p, r)
    \/ \E ok \in BOOLEAN : MintEncryptReturn(ok)
    \/ MintSignerReturn
    \/ \E ok \in BOOLEAN : MintTxReturn(ok)
    \/ MintWaitReturn
    \/ MintRefetchReturn

\* a collaborator of handleTransfer answers in this step
TransferAnswer ==
    \/ TransferSignerReturn
    \/ \E ok \in BOOLEAN : TransferTxReturn(ok)
    \/ TransferWaitReturn
    \/ TransferRefetchReturn

\* a collaborator of decryptMessage answers in this step
RevealAnswer ==
    \E r \in BagToSet(revealRuns), ok \in BOOLEAN :
        RevealReadReturn(r, ok) \/ RevealSignReturn(r, ok) \/ RevealDecryptReturn(r, ok)

\* C19: an invocation of handleMint, handleTransfer or decryptMessage calls
\* each collaborator at most once: every answer of a collaborator moves the
\* invocation to a later stage or ends it, never back to a stage it has
\* been in, and an invocation begins only with the user's submit or click.
C19_NoAutomaticRetry ==
    [][/\ (mintRun'.pc # mintRun.pc /\ mintRun'.pc # "idle")
          => <<mintRun.pc, mintRun'.pc>> \in StageOrder
       /\ MintAnswer => mintRun'.pc # mintRun.pc
       /\ (mintRun.pc = "idle" /\ mintRun'.pc # "idle") => HandleMint
       /\ (transferRun'.pc # transferRun.pc /\ transferRun'.pc # "idle")
          => <<transferRun.pc, transferRun'.pc>> \in TransferOrder
       /\ TransferAnswer => transferRun'.pc # transferRun.pc
       /\ (transferRun.pc = "idle" /\ transferRun'.pc # "idle") => HandleTransfer
       /\ RevealAnswer => revealRuns' # revealRuns
       /\ revealRuns' # revealRuns
          => \/ \E t \in 0..MaxTokens :
                   /\ DecryptMessage(t)
                   /\ revealRuns' = revealRuns (+)
                         SetToBag({RevealRun("reading", t, ClosureAddress, "")})
             \/ \E r \in BagToSet(revealRuns) :
                   revealRuns' = revealRuns (-) SetToBag({r})
             \/ \E r \in BagToSet(revealRuns), q \in BagToSet(revealRuns') :
                   /\ revealRuns' = (revealRuns (-) SetToBag({r})) (+) SetToBag({q})
                   /\ q.token = r.token
                   /\ <<r.pc, q.pc>> \in RevealOrder]_vars

\* C19 witness: a transfer rejected in the wallet and a reveal whose handle
\* read failed have both ended, after a mint that went through
C19_Witness ==
    /\ 1 \in DOMAIN owners
    /\ mintRun = IdleRun /\ transferRun = IdleRun /\ revealRuns = EmptyBag
    /\ transferStatus = ErrorStatus("user rejected action")
    /\ decryptStatus = ErrorStatus("network error")
    /\ ~transferring /\ activeDecrypt = NoToken

(***************************************************************************)
(* Claims about the key of the cache entry (SpecCache).                    *)
(***************************************************************************)
\* C20: every cache entry handleMint writes is keyed by the address of the
\* account that signed the mint transaction (in either spelling of the
\* address) and by the id the transaction's token got, and holds the
\* message of that mint.
C20_CacheKeyedBySubmitter ==
    [][localStorage' # localStorage
          => (/\ mintRun.pc = "mined"
              /\ \E address \in {LowerAddress(mintRun.signer),
                                 ChecksumAddress(mintRun.signer)} :
                    localStorage' = Put(localStorage,
                                        CacheKey(address, mintRun.tokenId),
                                        mintRun.value))]_vars

(***************************************************************************)
(* Claims about the upload fallback policy (SpecUpload).                   *)
(***************************************************************************)
\* the errors uploadToPinata throws
HostErrors == {"Pinata API credentials not configured", "Request failed"}

\* C21: for a file that passes the two checks, uploadImage calls the host
\* upload exactly when the API key is configured and returns the host's
\* result when that call succeeds; when the key or the secret is absent or
\* the call throws it goes on to the inline path: the on-chain size error
\* over 100KB and no file read, the file read otherwise.  An inline result is
\* never produced after a successful host upload, and no error of the host
\* upload reaches the caller.
C21_FallbackPolicy ==
    (upPc = "done" /\ PassesChecks(upFile))
    => LET hostOk == HostConfigured(upEnv) /\ upEnv.pinataOk
       IN  /\ upResult.pinataTried <=> (upEnv.apiKey # "")
           /\ upResult.posted <=> HostConfigured(upEnv)
           /\ hostOk => /\ upResult = uploadToPinata(upFile, upEnv)
                        /\ upResult.ok
                        /\ upResult.via = "ipfs"
                        /\ ~upResult.read
           /\ ~hostOk => /\ upResult.via # "ipfs"
                         /\ upResult.read <=> (upFile.size <= maxBase64Size)
                         /\ (upFile.size > maxBase64Size)
                               => (~upResult.ok /\ upResult.error
                                       = "Image too large for on-chain storage")
                         /\ (upFile.size <= maxBase64Size /\ upEnv.readOk)
                               => (upResult.ok /\ upResult.via = "base64")
           /\ upResult.error \notin HostErrors

\* C21 witness: the key is configured, the secret is not; the host upload
\* was called and threw, and the 50KB file came back inline
C21_Witness ==
    /\ upPc = "done"
    /\ PassesChecks(upFile)
    /\ upEnv.apiKey # "" /\ upEnv.apiSecret = ""
    /\ upFile.size = 50 * 1024
    /\ upResult.pinataTried /\ ~upResult.posted
    /\ upResult.ok /\ upResult.via = "base64"

(***************************************************************************)
(* Claims about the form of the cache key (SpecCache).                     *)
(***************************************************************************)
\* the strings useSimpleWallet can hold as the address of account a
AddressForms(a) == {LowerAddress(a), ChecksumAddress(a)}

\* C22: the key decryptMessage reads for the connected account and token T
\* is the key handleMint wrote for that account and T: whenever the cache
\* holds an entry written for account a and token T and the wallet hook
\* holds a's address, the key built from the hook's address is that entry.
C22_SameKeyReadAsWritten ==
    \A a \in Accounts, t \in 1..MaxMints :
        (/\ HasWallet
         /\ AccountOf(wallet.address) = a
         /\ \E x \in AddressForms(a) : CacheKey(x, t) \in DOMAIN localStorage)
        => CacheKey(wallet.address, t) \in DOMAIN localStorage

(***************************************************************************)
(* The busy-indicator specification: HiddenNFTAppV2Simple with every       *)
(* outcome of every collaborator, a switch to account B at any moment, and *)
(* the fairness of the event loop: a promise that has settled gets its     *)
(* continuation run, whatever else the user does in between (strong        *)
(* fairness: the continuation of a settled decryptUint256 runs before any  *)
(* other event and holds the others back for that moment).                 *)
(***************************************************************************)
\* the awaits of handleMint settle (uploadImage, encryptMessage, getSigner,
\* contract.mint, the transaction's execution, tx.wait)
MintReturns ==
    \/ \E p, r \in BOOLEAN : MintUploadReturn(p, r)
    \/ \E ok \in BOOLEAN : MintEncryptReturn(ok)
    \/ MintSignerReturn
    \/ \E ok \in BOOLEAN : MintTxReturn(ok)
    \/ MintMined(mintRun.handle)
    \/ MintWaitReturn

\* the awaits of handleTransfer settle
TransferReturns ==
    \/ TransferSignerReturn
    \/ \E ok \in BOOLEAN : TransferTxReturn(ok)
    \/ TransferMined
    \/ TransferWaitReturn

\* the awaits of the decryptMessage invocations settle
RevealReturns ==
    \/ \E r \in BagToSet(revealRuns), ok \in BOOLEAN : RevealReadReturn(r, ok)
    \/ \E r \in BagToSet(revealRuns) : RevealDecryptReturn(r, TRUE)

\* what the user and the wallet extension do
UserSteps ==
    \/ \E authorized \in BOOLEAN : CheckConnection(authorized)
    \/ AccountsChanged("B")
    \/ SetMintValue("hello")
    \/ SetSelectedImage(SmallPng)
    \/ (nextTokenId <= MaxMints /\ HandleMint)
    \/ LoadNFTs
    \/ SetTransferToken("1")
    \/ SetTransferAddress(LowerAddress("B"))
    \/ HandleTransfer
    \/ \E t \in 0..MaxMints : DecryptMessage(t)

NextBusy == UserSteps \/ MintReturns \/ TransferReturns \/ RevealReturns

SpecBusy ==
    /\ InitCache
    /\ [][NextBusy]_vars
    /\ SF_vars(MintReturns)
    /\ SF_vars(TransferReturns)
    /\ SF_vars(RevealReturns)

(***************************************************************************)
(* Claims about the busy indicators (SpecBusy).                            *)
(***************************************************************************)
MintInFlight == mintRun.pc # "idle"
TransferInFlight == transferRun.pc # "idle"

\* C23: a handleMint, handleTransfer or decryptMessage invocation that
\* passed validation ends, whatever the outcome, and ends with its
\* indicator cleared (minting = false, transferring = false, activeDecrypt
\* = null); an indicator is set only while an invocation of its kind is in
\* flight (activeDecrypt: an invocation for that token).
C23_BusyIndicatorsCleared ==
    /\ [](minting => MintInFlight)
    /\ [](transferring => TransferInFlight)
    /\ [](activeDecrypt # NoToken
            => \E r \in BagToSet(revealRuns) : r.token = activeDecrypt)
    /\ [][(MintInFlight /\ ~MintInFlight') => ~minting']_vars
    /\ [][(TransferInFlight /\ ~TransferInFlight') => ~transferring']_vars
    /\ [][(InFlight' < InFlight \/ (\E t \in 0..MaxMints : DecryptMessage(t)
                                      /\ InFlight' = InFlight))
            => activeDecrypt' = NoToken]_vars
    /\ MintInFlight ~> (~MintInFlight /\ ~minting)
    /\ TransferInFlight ~> (~TransferInFlight /\ ~transferring)
    /\ (activeDecrypt # NoToken) ~> (activeDecrypt = NoToken)

\* C23 witness: a reveal that passed the cache and failed to read the handle
\* has ended with activeDecrypt null, while a transfer is in flight with
\* transferring set
C23_Witness ==
    /\ InFlight = 0
    /\ activeDecrypt = NoToken
    /\ decryptStatus = ErrorStatus("network error")
    /\ TransferInFlight
    /\ transferring

(***************************************************************************)
(* Claims about the owner's access to the message (SpecContract).          *)
(***************************************************************************)
\* C24: between transactions, the owner of every existing token whose
\* message is initialized is among the accounts granted access to that
\* message.
C24_OwnerHasAccess ==
    callStack = << >>
    => \A t \in DOMAIN owners :
          IsInitialized(StoredMessage(tokenMessages, t))
          => owners[t] \in Grantees(StoredMessage(tokenMessages, t))

(***************************************************************************)
(* The FHE instance specification: calls of initializeFHE by the           *)
(* on-connect effect and by encryptMessage, in any order and overlapping,  *)
(* with every outcome of initSDK, getNetwork and createInstance.           *)
(***************************************************************************)
InitFHE == AppUnused /\ UploadUnused

NextFHE ==
    \/ \E caller \in FheCallers, hasEthereum \in BOOLEAN :
          /\ createCalls + BagCardinality(fheCalls) < MaxCreates
          /\ InitializeFHE(caller, hasEthereum)
    \/ \E c \in BagToSet(fheCalls), ok \in BOOLEAN : InitSDKReturn(c, ok)
    \/ \E c \in BagToSet(fheCalls), ok \in BOOLEAN : GetNetworkReturn(c, ok)
    \/ \E c \in BagToSet(fheCalls), ok \in BOOLEAN : CreateInstanceReturn(c, ok)

SpecFHE == InitFHE /\ [][NextFHE]_vars

(***************************************************************************)
(* Claims about the FHE instance (SpecFHE).                                *)
(***************************************************************************)
\* C25: the SDK's createInstance is called at most once in a page session,
\* whatever the interleaving of the initializeFHE calls.
C25_CreatedAtMostOnce == createCalls <= 1

(***************************************************************************)
(* The wallet specification: useSimpleWallet on a page with a wallet       *)
(* provider (the connection check of the mount effect, the accountsChanged *)
(* events, connect with every outcome, disconnect) and on a page without   *)
(* one (connect only), with the effect the component runs on connection.   *)
(***************************************************************************)
ConnectOutcomes == {"accounts", "empty", "rejected"}

InitWallet ==
    /\ app = "V2Simple"
    /\ selected \in Accounts
    /\ wallet = Disconnected
    /\ pendingOps \in {{"checkConnection"}, {"noProvider"}}
    /\ mintValue = "" /\ selectedImage = NoFile /\ minting = FALSE /\ mintStatus = ""
    /\ transferToken = "" /\ transferAddress = "" /\ transferring = FALSE
    /\ transferStatus = ""
    /\ decryptedAttributes = EmptyMap /\ activeDecrypt = NoToken /\ decryptStatus = ""
    /\ nfts = << >>
    /\ localStorage = EmptyMap
    /\ nextTokenId = FirstTokenId /\ owners = << >> /\ tokenMessages = << >>
    /\ allowed = {} /\ callStack = << >>
    /\ mintRun = IdleRun /\ transferRun = IdleRun /\ revealRuns = EmptyBag
    /\ FheUnused
    /\ SimUnused
    /\ EncodeUnused
    /\ UploadUnused

\* the effect of HiddenNFTAppV2Simple on wallet.isConnected
ConnectEffect ==
    /\ wallet.isConnected
    /\ createCalls + BagCardinality(fheCalls) < MaxCreates
    /\ InitializeFHE("effect", TRUE)

NextWallet ==
    \/ \E authorized \in BOOLEAN : CheckConnection(authorized)
    \/ \E a \in Accounts : HasProvider /\ AccountsChanged(a)
    \/ Disconnect
    \/ (HasProvider /\ AccountsEmptied)
    \/ (HasProvider /\ ConnectStart)
    \/ \E outcome \in ConnectOutcomes : ConnectReturn(outcome)
    \/ ConnectNoProvider
    \/ ConnectEffect
    \/ \E c \in BagToSet(fheCalls), ok \in BOOLEAN : InitSDKReturn(c, ok)
    \/ \E c \in BagToSet(fheCalls), ok \in BOOLEAN : GetNetworkReturn(c, ok)
    \/ \E c \in BagToSet(fheCalls), ok \in BOOLEAN : CreateInstanceReturn(c, ok)

SpecWallet == InitWallet /\ [][NextWallet]_vars

(***************************************************************************)
(* Claims about useSimpleWallet (SpecWallet).                              *)
(***************************************************************************)
\* a step of a connect() call that does not end with accounts
FailedConnectStep ==
    \/ ConnectStart
    \/ ConnectReturn("rejected")
    \/ ConnectReturn("empty")
    \/ ConnectNoProvider

\* C26: in every state of the hook isConnected is true exactly when address
\* is not null, and the steps of a connect() that fails change nothing of
\* the hook's state but isLoading and error.
C26_ConnectedIffAddress ==
    /\ [](wallet.isConnected <=> wallet.address # Null)
    /\ [][FailedConnectStep
            => (/\ wallet'.address = wallet.address
                /\ wallet'.isConnected = wallet.isConnected)]_vars

\* C26 witness: an accountsChanged event connected the wallet while
\* connect() was waiting, and the request was then rejected: the hook is
\* connected, with an address, and holds the error
C26_Witness ==
    /\ wallet.isConnected
    /\ wallet.address # Null
    /\ wallet.error = "Failed to connect wallet"
    /\ ~wallet.isLoading

\* C27: every connect() call ends with isLoading false, whatever the answer
\* to the account request (accounts, an empty list, a rejection) and on a
\* page without a wallet provider.
C27_ConnectClearsLoading ==
    [][((\E outcome \in ConnectOutcomes : ConnectReturn(outcome)) \/ ConnectNoProvider)
          => ~wallet'.isLoading]_vars

(***************************************************************************)
(* Claims about who sees a revealed plaintext (SpecCache).                 *)
(***************************************************************************)
\* the account of the connected wallet, or "none"
ConnectedAccount == IF HasWallet THEN AccountOf(wallet.address) ELSE "none"

\* the gallery shows a plaintext for token t to the connected account
ShownPlain(t) ==
    /\ HasWallet
    /\ t \in ShownTokens
    /\ toString(t) \in DOMAIN decryptedAttributes
    /\ decryptedAttributes[toString(t)] # EncryptedPlaceholder

\* C28: a plaintext is shown for token T to the connected account X only
\* from a reveal X requested: whenever a step makes a plaintext of T shown
\* to an account it was not shown to before the step, the step is a reveal
\* of T (the cache hit of decryptMessage or the end of its decryption).
C28_RevealedOnlyToRequester ==
    [][\A t \in 1..MaxMints :
          (ShownPlain(t)' /\ ~(ShownPlain(t) /\ ConnectedAccount' = ConnectedAccount))
          => \/ DecryptMessage(t)
             \/ \E r \in BagToSet(revealRuns) :
                   r.token = t /\ RevealDecryptReturn(r, TRUE)]_vars

(***************************************************************************)
(* The simulated apps: HiddenNFTAppTest (components/HiddenNFTApp.test.tsx) *)
(* and HiddenNFTAppV2 (components/HiddenNFTAppV2.tsx).  A handler sees the *)
(* state of the render it was created in; an async handler keeps these     *)
(* values across its awaits.                                               *)
(***************************************************************************)
\* mints submitted in one behaviour
MaxSimMints == 2

\* what the user types into the message field
SimMintInputs == {"  ", "hello"}
\* what the token id field holds (onChange keeps the digits)
SimTokenInputs == {"1", "7"}
\* what the user types into the recipient field
SimAddressInputs == {LowerAddress("B"), "0x" \o Rep("Z", AddressHexDigits)}
\* the files ImageUpload hands to onImageSelect
SimImageInputs == {SmallPng}
\* the build of the simulated apps has no Pinata credentials
SimUploadEnv == [AppUploadEnv EXCEPT !.apiKey = "", !.apiSecret = ""]

\* const hasWallet = Boolean(isConnected && address)
SimHasWallet == sim.address # Null

\* the form of a tab is rendered: HiddenNFTAppV2 renders the active tab only
TabShown(tab) == sim.app = "HiddenNFTAppTest" \/ sim.activeTab = tab

\* nfts as the render sees it: the NFTItem objects the array refers to
SimNfts == [i \in 1..Len(sim.nfts) |-> sim.objects[sim.nfts[i]]]

\* nfts.findIndex(nft => nft.tokenId === tokenId), 0 for -1
FindIndex(refs, tokenId) ==
    IF \E i \in 1..Len(refs) : sim.objects[refs[i]].tokenId = tokenId
    THEN CHOOSE i \in 1..Len(refs) :
            /\ sim.objects[refs[i]].tokenId = tokenId
            /\ \A j \in 1..(i - 1) : sim.objects[refs[j]].tokenId # tokenId
    ELSE 0

\* a handleMint invocation: the values of its closure
SimMintRun(pc, imageUri) ==
    [pc |-> pc, nfts |-> sim.nfts, nextTokenId |-> sim.nextTokenId,
     address |-> sim.address, mintValue |-> sim.mintValue,
     selectedImage |-> sim.selectedImage, imageUri |-> imageUri]

\* a decryptMessage invocation: the NFTItem it found
SimRevealRun(tokenId, ref) == [tokenId |-> tokenId, nft |-> ref]

\* useAccount(): the wallet connects, switches account or disconnects
SimAccountChanged(a) ==
    /\ sim.address # a
    /\ sim' = [sim EXCEPT !.address = a]
    /\ UNCHANGED <<uploadVars, fheVars, encVars, appVars>>

\* a tab button of HiddenNFTAppV2: setActiveTab(tab)
SetActiveTab(tab) ==
    /\ sim.app = "HiddenNFTAppV2"
    /\ sim.activeTab # tab
    /\ sim' = [sim EXCEPT !.activeTab = tab]
    /\ UNCHANGED <<uploadVars, fheVars, encVars, appVars>>

\* onChange of the message field and onImageSelect of ImageUpload
\* (disabled={minting})
SimSetMintValue(v) ==
    /\ TabShown("mint")
    /\ sim.mintValue # v
    /\ sim' = [sim EXCEPT !.mintValue = v]
    /\ UNCHANGED <<uploadVars, fheVars, encVars, appVars>>

SimSetSelectedImage(f) ==
    /\ TabShown("mint")
    /\ ~sim.minting
    /\ sim.selectedImage # f
    /\ sim' = [sim EXCEPT !.selectedImage = f]
    /\ UNCHANGED <<uploadVars, fheVars, encVars, appVars>>

\* onChange of the transfer fields
SimSetTransferToken(v) ==
    /\ TabShown("transfer")
    /\ sim.transferToken # v
    /\ sim' = [sim EXCEPT !.transferToken = v]
    /\ UNCHANGED <<uploadVars, fheVars, encVars, appVars>>

SimSetTransferAddress(v) ==
    /\ TabShown("transfer")
    /\ sim.transferAddress # v
    /\ sim' = [sim EXCEPT !.transferAddress = v]
    /\ UNCHANGED <<uploadVars, fheVars, encVars, appVars>>

\* the submit button of the mint form:
\* disabled={minting || !hasWallet || !selectedImage}
SimMintEnabled ==
    /\ TabShown("mint")
    /\ ~sim.minting /\ SimHasWallet /\ sim.selectedImage # NoFile

\* handleMint whose submit button stays enabled while a mint is in flight
SimHandleMint_NotDisabled ==
    /\ TabShown("mint")
    /\ SimHasWallet /\ sim.selectedImage # NoFile
    /\ Len(sim.objects) + BagCardinality(sim.mintRuns) < MaxSimMints
    /\ IF Trim(sim.mintValue) = ""
       THEN sim' = [sim EXCEPT !.mintStatus = "Please enter a message for the NFT."]
       ELSE sim' = [sim EXCEPT !.minting = TRUE,
                               !.mintStatus = "Uploading image...",
                               !.mintRuns = @ (+) SetToBag({SimMintRun("uploading", "")})]
    /\ UNCHANGED <<uploadVars, fheVars, encVars, appVars>>

\* handleMint(event), up to `await uploadImage(selectedImage)`
SimHandleMint ==
    /\ SimMintEnabled
    /\ Len(sim.objects) + BagCardinality(sim.mintRuns) < MaxSimMints
    /\ IF Trim(sim.mintValue) = ""
       THEN sim' = [sim EXCEPT !.mintStatus = "Please enter a message for the NFT."]
       ELSE sim' = [sim EXCEPT !.minting = TRUE,
                               !.mintStatus = "Uploading image...",
                               !.mintRuns = @ (+) SetToBag({SimMintRun("uploading", "")})]
    /\ UNCHANGED <<uploadVars, fheVars, encVars, appVars>>

\* uploadImage settles: the one-second timer starts, or the catch and
\* finally blocks run
SimUploadReturn(r, readOk) ==
    /\ r \in BagToSet(sim.mintRuns)
    /\ r.pc = "uploading"
    /\ LET res == uploadImage(r.selectedImage, [SimUploadEnv EXCEPT !.readOk = readOk])
           rest == sim.mintRuns (-) SetToBag({r})
       IN  IF res.ok
           THEN sim' = [sim EXCEPT
                    !.mintStatus = (IF sim.app = "HiddenNFTAppV2"
                                    THEN "Creating your NFT..."
                                    ELSE "Image uploaded. Creating NFT..."),
                    !.mintRuns = rest (+) SetToBag({[r EXCEPT !.pc = "delay",
                                                              !.imageUri = res.imageUri]})]
           ELSE sim' = [sim EXCEPT !.mintStatus = res.error,
                                   !.minting = FALSE,
                                   !.mintRuns = rest]
    /\ UNCHANGED <<uploadVars, fheVars, encVars, appVars>>

\* the one-second timer fires: setNfts([...nfts, newNFT]) and
\* setNextTokenId(nextTokenId + 1) with the nfts and nextTokenId of the
\* closure, then the form is cleared and the finally block runs
SimMintDelayReturn(r) ==
    /\ r \in BagToSet(sim.mintRuns)
    /\ r.pc = "delay"
    /\ LET newNFT == [tokenId |-> r.nextTokenId, owner |-> r.address,
                      imageUri |-> r.imageUri, message |-> r.mintValue]
           ref == Len(sim.objects) + 1
       IN  sim' = [sim EXCEPT
                !.objects = Append(@, newNFT),
                !.nfts = Append(r.nfts, ref),
                !.nextTokenId = r.nextTokenId + 1,
                !.mintValue = "",
                !.selectedImage = NoFile,
                !.mintStatus = (IF sim.app = "HiddenNFTAppV2"
                                THEN Succeeded("NFT minted successfully!")
                                ELSE Succeeded("NFT minted successfully! (Test mode - no blockchain)")),
                !.activeTab = (IF sim.app = "HiddenNFTAppV2" THEN "gallery" ELSE @),
                !.minting = FALSE,
                !.mintRuns = @ (-) SetToBag({r})]
    /\ UNCHANGED <<uploadVars, fheVars, encVars, appVars>>

\* handleTransfer(event): no await, the handler runs to its end; the owner
\* is written into the NFTItem object itself (updatedNfts[nftIndex].owner),
\* and setNfts gets a new array of the same objects
SimHandleTransfer ==
    /\ TabShown("transfer")
    /\ ~sim.transferring /\ SimHasWallet /\ sim.transferToken # ""
    /\ LET tokenId == NumberOf(sim.transferToken)
           nftIndex == FindIndex(sim.nfts, tokenId)
       IN  IF ~MatchesAddress(Trim(sim.transferAddress))
           THEN sim' = [sim EXCEPT !.transferStatus = "Enter a valid recipient address."]
           ELSE IF nftIndex = 0
           THEN sim' = [sim EXCEPT !.transferStatus = "Token not found."]
           ELSE sim' = [sim EXCEPT
                    !.objects[sim.nfts[nftIndex]].owner = Trim(sim.transferAddress),
                    !.transferStatus = (IF sim.app = "HiddenNFTAppV2"
                                        THEN Succeeded("Transfer completed!")
                                        ELSE Succeeded("Transfer completed! (Test mode)")),
                    !.transferToken = "",
                    !.transferAddress = "",
                    !.decryptedAttributes = Remove(@, toString(tokenId))]
    /\ UNCHANGED <<uploadVars, fheVars, encVars, appVars>>

\* the cards of the gallery: nfts.filter(nft => nft.owner === address)
SimShownTokens ==
    IF SimHasWallet /\ TabShown("gallery")
    THEN {SimNfts[i].tokenId : i \in {j \in 1..Len(sim.nfts) : SimNfts[j].owner = sim.address}}
    ELSE {}

\* decryptMessage(tokenId), up to the 500ms timer; the button of a card is
\* disabled while activeDecrypt is its token
SimDecryptMessage(tokenId) ==
    /\ tokenId \in SimShownTokens
    /\ sim.activeDecrypt # tokenId
    /\ BagCardinality(sim.reveals) < MaxReveals
    /\ sim' = [sim EXCEPT
            !.activeDecrypt = tokenId,
            !.decryptStatus = "",
            !.reveals = @ (+) SetToBag({SimRevealRun(tokenId,
                                            sim.nfts[FindIndex(sim.nfts, tokenId)])})]
    /\ UNCHANGED <<uploadVars, fheVars, encVars, appVars>>

\* the 500ms timer fires: the message of the NFTItem found at the click
SimDecryptReturn(r) ==
    /\ r \in BagToSet(sim.reveals)
    /\ sim' = [sim EXCEPT
            !.decryptedAttributes = Put(@, toString(r.tokenId), sim.objects[r.nft].message),
            !.decryptStatus = Succeeded("Message decrypted!"),
            !.activeDecrypt = NoToken,
            !.reveals = @ (-) SetToBag({r})]
    /\ UNCHANGED <<uploadVars, fheVars, encVars, appVars>>

\* the simulated apps alone
InitSim ==
    /\ WorkflowUnused /\ FheUnused /\ UploadUnused /\ EncodeUnused
    /\ \E a \in SimApps : sim = SimStart(a)

NextSim ==
    \/ \E a \in {Null, ChecksumAddress("A"), ChecksumAddress("B")} : SimAccountChanged(a)
    \/ \E tab \in {"mint", "transfer", "gallery"} : SetActiveTab(tab)
    \/ \E v \in SimMintInputs : SimSetMintValue(v)
    \/ \E f \in SimImageInputs : SimSetSelectedImage(f)
    \/ \E v \in SimTokenInputs : SimSetTransferToken(v)
    \/ \E v \in SimAddressInputs : SimSetTransferAddress(v)
    \/ SimHandleMint
    \/ \E r \in BagToSet(sim.mintRuns), readOk \in BOOLEAN : SimUploadReturn(r, readOk)
    \/ \E r \in BagToSet(sim.mintRuns) : SimMintDelayReturn(r)
    \/ SimHandleTransfer
    \/ \E t \in 1..MaxSimMints : SimDecryptMessage(t)
    \/ \E r \in BagToSet(sim.reveals) : SimDecryptReturn(r)

SpecSim == InitSim /\ [][NextSim]_vars

\* C29: in the simulated apps the NFTs of the store have distinct token
\* ids, the ids are 1, 2, 3, ... in mint order (the i-th NFT of the store
\* has id i and nextTokenId is the next one), and no step drops an NFT
\* from the store: every NFTItem of nfts before a step is in nfts after it.
C29_StoreIdsDistinctInOrder ==
    /\ [](/\ \A i, j \in 1..Len(sim.nfts) : SimNfts[i].tokenId = SimNfts[j].tokenId => i = j
          /\ \A i \in 1..Len(sim.nfts) : SimNfts[i].tokenId = i
          /\ ~sim.minting => sim.nextTokenId = Len(sim.nfts) + FirstSimTokenId)
    /\ [][/\ Len(sim.nfts') >= Len(sim.nfts)
          /\ \A i \in 1..Len(sim.nfts) : sim.nfts'[i] = sim.nfts[i]]_vars

\* two NFTs are in the store, the first one transferred to another account,
\* and a reveal has shown the message of the second one
C29_Witness ==
    /\ Len(sim.nfts) = 2
    /\ SimNfts[1].owner = LowerAddress("B")
    /\ SimNfts[2].owner = ChecksumAddress("A")
    /\ sim.nextTokenId = 3
    /\ "2" \in DOMAIN sim.decryptedAttributes

(***************************************************************************)
(* utils/fheEncryption.ts, encryptMessage: the encoding of the message.    *)
(* A message is a JavaScript string, here the sequence of its UTF-16 code  *)
(* units; a BigInt is the sequence of its base-256 digits, least           *)
(* significant first, without leading zero digits (0 is the empty          *)
(* sequence), so two BigInts are equal exactly when the sequences are.     *)
(***************************************************************************)
\* the loop bound of encryptMessage: Math.min(messageBytes.length, 32)
WordBytes == 32

\* code units the messages are built from at the end: "a", U+0000, U+00E9,
\* the two halves of U+1F600 and U+FFFD
MaxTail == 2
TailUnits == {97, 0, 233, 55357, 56832, 65533}
\* the lengths of the run of "b" the messages start with
HeadLengths == {0, WordBytes - 2, WordBytes - 1, WordBytes}

IsHighSurrogate(c) == c >= 55296 /\ c <= 56319
IsLowSurrogate(c) == c >= 56320 /\ c <= 57343

\* new TextEncoder().encode(message): UTF-8, a surrogate pair is one code
\* point, a surrogate without its partner is encoded as U+FFFD
RECURSIVE Utf8From(_, _)
Utf8From(s, i) ==
    IF i > Len(s) THEN << >>
    ELSE LET c == s[i]
         IN  IF c < 128 THEN <<c>> \o Utf8From(s, i + 1)
             ELSE IF c < 2048
             THEN <<192 + (c \div 64), 128 + (c % 64)>> \o Utf8From(s, i + 1)
             ELSE IF IsHighSurrogate(c) /\ i < Len(s) /\ IsLowSurrogate(s[i + 1])
             THEN LET cp == 65536 + (c - 55296) * 1024 + (s[i + 1] - 56320)
                  IN  <<240 + (cp \div 262144), 128 + ((cp \div 4096) % 64),
                        128 + ((cp \div 64) % 64), 128 + (cp % 64)>>
                      \o Utf8From(s, i + 2)
             ELSE IF IsHighSurrogate(c) \/ IsLowSurrogate(c)
             THEN <<239, 191, 189>> \o Utf8From(s, i + 1)
             ELSE <<224 + (c \div 4096), 128 + ((c \div 64) % 64), 128 + (c % 64)>>
                  \o Utf8From(s, i + 1)

Utf8(s) == Utf8From(s, 1)

\* x | y on two bytes
RECURSIVE BitOr(_, _)
BitOr(x, y) ==
    IF x = 0 THEN y
    ELSE IF y = 0 THEN x
    ELSE (IF x % 2 = 1 \/ y % 2 = 1 THEN 1 ELSE 0) + 2 * BitOr(x \div 2, y \div 2)

\* the digits without the zero digits at the most significant end
RECURSIVE Normalize(_)
Normalize(d) ==
    IF d = << >> THEN << >>
    ELSE IF d[Len(d)] = 0 THEN Normalize(SubSeq(d, 1, Len(d) - 1))
    ELSE d

DigitAt(a, k) == IF k <= Len(a) THEN a[k] ELSE 0

\* BigInt(byte)
BigInt(byte) == Normalize(<<byte>>)

\* a << BigInt(bits), for a shift by whole bytes
ShiftLeft(a, bits) ==
    IF a = << >> THEN << >> ELSE [k \in 1..(bits \div 8) |-> 0] \o a

\* a | b on BigInts
BigOr(a, b) ==
    Normalize([k \in 1..(IF Len(a) > Len(b) THEN Len(a) ELSE Len(b)) |->
                  BitOr(DigitAt(a, k), DigitAt(b, k))])

\* the for loop: messageNum = messageNum | (BigInt(messageBytes[i]) << BigInt(i * 8));
\* the test of Len(messageNum) has TLC evaluate messageNum in every iteration,
\* as the loop does, instead of one nested expression at its end
RECURSIVE EncodeLoop(_, _, _, _)
EncodeLoop(messageBytes, i, limit, messageNum) ==
    IF i < limit /\ Len(messageNum) >= 0
    THEN EncodeLoop(messageBytes, i + 1, limit,
                    BigOr(messageNum, ShiftLeft(BigInt(messageBytes[i + 1]), i * 8)))
    ELSE messageNum

\* the loop without Math.min: every byte of the message is used
MessageNum_AllBytes(messageBytes) ==
    EncodeLoop(messageBytes, 0, Len(messageBytes), << >>)

\* let messageNum = BigInt(0); for (let i = 0; i < Math.min(messageBytes.length, 32); i++) ...
MessageNum(messageBytes) ==
    EncodeLoop(messageBytes, 0,
               IF Len(messageBytes) < WordBytes THEN Len(messageBytes) ELSE WordBytes,
               << >>)

\* the messages encryptMessage is called with
RECURSIVE Tails(_)
Tails(n) ==
    IF n = 0 THEN {<< >>}
    ELSE Tails(n - 1) \cup {Append(t, c) : t \in Tails(n - 1), c \in TailUnits}

EncodeInputs == {[k \in 1..n |-> 98] \o t : n \in HeadLengths, t \in Tails(MaxTail)}

\* encoder.encode(message)
EncodeText ==
    /\ encryption.pc = "encode"
    /\ encryption' = [encryption EXCEPT !.pc = "loop",
                                        !.messageBytes = Utf8(encryption.message)]
    /\ UNCHANGED <<uploadVars, fheVars, simVars, appVars>>

\* the loop, up to encryptedInput.add256(messageNum)
EncodeAdd256 ==
    /\ encryption.pc = "loop"
    /\ encryption' = [encryption EXCEPT !.pc = "add256",
                                        !.messageNum = MessageNum(encryption.messageBytes)]
    /\ UNCHANGED <<uploadVars, fheVars, simVars, appVars>>

\* encryptMessage alone
InitEncode ==
    /\ WorkflowUnused /\ FheUnused /\ UploadUnused /\ SimUnused
    /\ encryption \in {[pc |-> "encode", message |-> m, messageBytes |-> << >>,
                        messageNum |-> << >>] : m \in EncodeInputs}

NextEncode == EncodeText \/ EncodeAdd256

SpecEncode == InitEncode /\ [][NextEncode]_vars

\* what the inputs encode to
Utf8Of == [m \in EncodeInputs |-> Utf8(m)]
EncodedOf == [m \in EncodeInputs |-> MessageNum(Utf8Of[m])]

\* the first min(length, 32) bytes
FirstBytes(bytes) == SubSeq(bytes, 1, IF Len(bytes) < WordBytes THEN Len(bytes) ELSE WordBytes)

\* a message of at most 32 bytes with no trailing zero byte
ShortNoTrailingZero(bytes) ==
    /\ Len(bytes) <= WordBytes
    /\ bytes # << >> => bytes[Len(bytes)] # 0

\* no surrogate code unit without its partner
WellFormed(s) ==
    \A i \in 1..Len(s) :
        /\ IsHighSurrogate(s[i]) => i < Len(s) /\ IsLowSurrogate(s[i + 1])
        /\ IsLowSurrogate(s[i]) => i > 1 /\ IsHighSurrogate(s[i - 1])

\* the value is below 2^256: at most 256 / 8 digits
IsUint256(n) == Len(n) * 8 <= 256

\* C30 as stated: the value passed to add256 is the little-endian integer
\* of the first min(length, 32) UTF-8 bytes, it is in [0, 2^256), any two
\* distinct messages of at most 32 bytes with no trailing zero byte have
\* distinct values, and bytes beyond the 32nd do not change the value.
C30_DistinctMessagesDistinctValues ==
    encryption.pc = "add256" =>
        /\ IsUint256(encryption.messageNum)
        /\ encryption.messageNum = Normalize(FirstBytes(encryption.messageBytes))
        /\ \A m \in EncodeInputs :
              /\ (/\ m # encryption.message
                  /\ ShortNoTrailingZero(Utf8Of[m])
                  /\ ShortNoTrailingZero(encryption.messageBytes))
                 => EncodedOf[m] # encryption.messageNum
              /\ FirstBytes(Utf8Of[m]) = FirstBytes(encryption.messageBytes)
                 => EncodedOf[m] = encryption.messageNum

\* C30, amended: the same, with distinct values for any two distinct
\* messages that are well-formed strings (no surrogate without its
\* partner), have at most 32 bytes and no trailing zero byte.
C30_EncodingOfFirst32Bytes ==
    encryption.pc = "add256" =>
        /\ IsUint256(encryption.messageNum)
        /\ encryption.messageNum = Normalize(FirstBytes(encryption.messageBytes))
        /\ \A m \in EncodeInputs :
              /\ (/\ m # encryption.message
                  /\ WellFormed(m) /\ WellFormed(encryption.message)
                  /\ ShortNoTrailingZero(Utf8Of[m])
                  /\ ShortNoTrailingZero(encryption.messageBytes))
                 => EncodedOf[m] # encryption.messageNum
              /\ FirstBytes(Utf8Of[m]) = FirstBytes(encryption.messageBytes)
                 => EncodedOf[m] = encryption.messageNum

\* a message of more than 32 bytes was encoded to a value of 32 digits,
\* the value of another message that differs from it after the 32nd byte
C30_Witness ==
    /\ encryption.pc = "add256"
    /\ Len(encryption.messageBytes) > WordBytes
    /\ Len(encryption.messageNum) = WordBytes
    /\ WellFormed(encryption.message)
    /\ \E m \in EncodeInputs :
          /\ Utf8Of[m] # encryption.messageBytes
          /\ EncodedOf[m] = encryption.messageNum
====
